---- MODULE Spec2Model ----
(***************************************************************************)
(* Model of the idea-generation and JSON-response reconciliation code of   *)
(* the LLM-Analysis pipeline:                                              *)
(*   src/utils/process_prompts.py   handle_json_response, generate_ideas,  *)
(*                                  validate_json_structure                *)
(*   src/utils/openrouter.py        OpenRouterClient.generate_ideas        *)
(*   src/processors/idea_generator.py  IdeaGenerator.generate              *)
(* and of what they rest on:                                               *)
(*   src/utils/openrouter.py        OpenRouterClient._make_request,        *)
(*                                  collect_dependencies                   *)
(*   src/utils/process_prompts.py   generate_dependencies,                 *)
(*                                  clean_json_string                      *)
(***************************************************************************)
EXTENDS Integers, Sequences, FiniteSets, TLC

(***************************************************************************)
(* Bounds of the model.                                                    *)
(***************************************************************************)
\* largest target count explored with an unreliable language model
MaxN == 3
\* the request counters saturate here
MaxRequests == 5
\* longest candidate list handed to the validators on their own
MaxLen == 3

\* target counts explored only with a model that returns what it is asked
LargeTargets == {30}

(***************************************************************************)
(* JSON values.  A value is a tagged tuple: <<"str", id>>, <<"num", n>>,   *)
(* <<"list", items>>, <<"dict", pairs>> where pairs is the sequence of     *)
(* <<key, value>> in insertion order (Python dicts keep it).               *)
(***************************************************************************)
JStr(x) == <<"str", x>>
JNum(x) == <<"num", x>>
JList(items) == <<"list", items>>
JDict(pairs) == <<"dict", pairs>>

IsStr(v) == v[1] = "str"
IsList(v) == v[1] = "list"
IsDict(v) == v[1] = "dict"

\* `key in d`
HasKey(d, key) == \E i \in 1..Len(d[2]) : d[2][i][1] = key
\* `d[key]`
GetKey(d, key) == d[2][CHOOSE i \in 1..Len(d[2]) : d[2][i][1] = key][2]

\* isinstance(v, expected_type) for expected_type in {str, list}
IsInstance(v, expected_type) == v[1] = expected_type

\* all(isinstance(x, str) for x in v)
AllStrings(v) == \A i \in 1..Len(v[2]) : IsStr(v[2][i])

(***************************************************************************)
(* validate_json_structure (process_prompts.py:44-99, duplicated as        *)
(* OpenRouterClient._validate_json_structure, openrouter.py:150-205).      *)
(***************************************************************************)
required_fields ==
    << <<"Product Idea", "str">>,
       <<"Problem it solves", "str">>,
       <<"Software Techstack", "list">>,
       <<"Target hardware expectations", "list">>,
       <<"Company profile", "str">>,
       <<"Engineering profile", "str">> >>

\* the result of a validator: the returned list, or the ValueError raised
Ok(items) == [ok |-> TRUE, items |-> items, err |-> "none", index |-> 0, field |-> "none"]
Err(kind, i, f) == [ok |-> FALSE, items |-> <<>>, err |-> kind, index |-> i, field |-> f]

\* FieldError without the isinstance check
FieldError_NoTypeCheck(item, fld) ==
    IF ~HasKey(item, fld[1]) THEN "missing_field"
    ELSE IF fld[2] = "list" /\ IsList(GetKey(item, fld[1])) /\ ~AllStrings(GetKey(item, fld[1]))
         THEN "non_string_values"
    ELSE "none"

\* the checks of one required field, in the order of the code
FieldError(item, fld) ==
    IF ~HasKey(item, fld[1]) THEN "missing_field"
    ELSE IF ~IsInstance(GetKey(item, fld[1]), fld[2]) THEN "wrong_type"
    ELSE IF fld[2] = "list" /\ ~AllStrings(GetKey(item, fld[1])) THEN "non_string_values"
    ELSE "none"

\* the inner loop over required_fields: the first field that raises, or 0
FirstBadField(item) ==
    LET bad == {j \in 1..Len(required_fields) : FieldError(item, required_fields[j]) # "none"}
    IN  IF bad = {} THEN 0 ELSE CHOOSE j \in bad : \A m \in bad : j <= m

RECURSIVE ValidateItemsFrom_Skip(_, _, _)
\* ValidateItemsFrom skipping an item that fails instead of raising
ValidateItemsFrom_Skip(items, i, validated_items) ==
    IF i > Len(items)
    THEN IF validated_items = <<>> THEN Err("no_valid_items", 0, "none")
         ELSE Ok(validated_items)
    ELSE IF ~IsDict(items[i]) \/ FirstBadField(items[i]) # 0
         THEN ValidateItemsFrom_Skip(items, i + 1, validated_items)
    ELSE ValidateItemsFrom_Skip(items, i + 1, Append(validated_items, items[i]))

RECURSIVE ValidateItemsFrom(_, _, _)
\* the loop `for i, item in enumerate(items)`, with validated_items so far
ValidateItemsFrom(items, i, validated_items) ==
    IF i > Len(items)
    THEN IF validated_items = <<>> THEN Err("no_valid_items", 0, "none")
         ELSE Ok(validated_items)
    ELSE IF ~IsDict(items[i]) THEN Err("not_a_dictionary", i, "none")
    ELSE LET j == FirstBadField(items[i])
         IN  IF j # 0
             THEN Err(FieldError(items[i], required_fields[j]), i, required_fields[j][1])
             ELSE ValidateItemsFrom(items, i + 1, Append(validated_items, items[i]))

validate_json_structure(data) ==
    IF ~(IsList(data) \/ IsDict(data)) THEN Err("expected_list_or_dict", 0, "none")
    ELSE LET items == IF IsDict(data) THEN <<data>> ELSE data[2]
         IN  ValidateItemsFrom(items, 1, <<>>)

(***************************************************************************)
(* IdeaGenerator._validate_and_normalize_response                          *)
(* (idea_generator.py:31-79).                                              *)
(***************************************************************************)
\* `for value in data.values(): if isinstance(value, list): ... break`
FirstListValue(data) ==
    LET at == {i \in 1..Len(data[2]) : IsList(data[2][i][2])}
    IN  IF at = {} THEN data
        ELSE data[2][CHOOSE i \in at : \A m \in at : i <= m][2]

RECURSIVE ValidateIdeasFrom(_, _, _)
ValidateIdeasFrom(ideas_array, i, validated) ==
    IF i > Len(ideas_array) THEN Ok(validated)
    ELSE LET idea == ideas_array[i]
         IN  IF ~IsDict(idea) THEN Err("not_a_dictionary", i, "none")
             ELSE IF ~HasKey(idea, "Idea") \/ ~HasKey(idea, "Details")
                  THEN Err("missing_required_fields", i, "none")
             ELSE IF ~IsStr(GetKey(idea, "Idea")) \/ ~IsStr(GetKey(idea, "Details"))
                  THEN Err("invalid_field_types", i, "none")
             ELSE ValidateIdeasFrom(ideas_array, i + 1, Append(validated, idea))

validate_and_normalize_response(data) ==
    LET ideas_array == IF IsDict(data) THEN FirstListValue(data) ELSE data
    IN  IF ~IsList(ideas_array) THEN Err("expected_list_of_ideas", 0, "none")
        ELSE ValidateIdeasFrom(ideas_array[2], 1, <<>>)

(***************************************************************************)
(* Program constants.                                                      *)
(***************************************************************************)
\* generate_ideas asks for min(25, remaining_ideas)
PromptBatchSize == 25
\* IdeaGenerator.__init__: self.batch_size = 20
IdeaGeneratorBatchSize == 20
\* the default of max_format_retries / max_retries
DefaultMaxFormatRetries == 3

Min(a, b) == IF a <= b THEN a ELSE b

(***************************************************************************)
(* Replies of the language model.  A reply is the text of                  *)
(* response["choices"][0]["message"]["content"], kept as <<form, value>>:  *)
(*   "bare"    the text is the JSON text of value                          *)
(*   "fenced"  the same inside a Markdown fence                            *)
(*   "prose"   text without any bracketed span                             *)
(*   "broken"  a bracketed span that is not JSON                           *)
(***************************************************************************)
RichRecord(i) ==
    JDict(<< <<"Product Idea", JStr(i)>>,
             <<"Problem it solves", JStr(i)>>,
             <<"Software Techstack", JList(<<JStr(i)>>)>>,
             <<"Target hardware expectations", JList(<<JStr(i)>>)>>,
             <<"Company profile", JStr(i)>>,
             <<"Engineering profile", JStr(i)>> >>)

MinRecord(i) == JDict(<< <<"Idea", JStr(i)>>, <<"Details", JStr(i)>> >>)

Record(schema, i) == IF schema = "rich" THEN RichRecord(i) ELSE MinRecord(i)

Records(schema, n) == [i \in 1..n |-> Record(schema, i)]

\* records that break the schema
MissingFieldRecord(schema) ==
    IF schema = "rich"
    THEN JDict(<< <<"Product Idea", JStr(1)>>, <<"Problem it solves", JStr(1)>> >>)
    ELSE JDict(<< <<"Idea", JStr(1)>> >>)

WrongTypeRecord(schema) ==
    IF schema = "rich"
    THEN JDict(<< <<"Product Idea", JNum(123)>>,
                  <<"Problem it solves", JStr(1)>>,
                  <<"Software Techstack", JList(<<JStr(1)>>)>>,
                  <<"Target hardware expectations", JList(<<JStr(1)>>)>>,
                  <<"Company profile", JStr(1)>>,
                  <<"Engineering profile", JStr(1)>> >>)
    ELSE JDict(<< <<"Idea", JNum(123)>>, <<"Details", JStr(1)>> >>)

NonStringListRecord ==
    JDict(<< <<"Product Idea", JStr(1)>>,
             <<"Problem it solves", JStr(1)>>,
             <<"Software Techstack", JList(<<JStr(1), JNum(2)>>)>>,
             <<"Target hardware expectations", JList(<<JStr(1)>>)>>,
             <<"Company profile", JStr(1)>>,
             <<"Engineering profile", JStr(1)>> >>)

\* {"status": ..., "ideas": [...]}
Wrapped(items) == JDict(<< <<"status", JStr(0)>>, <<"ideas", JList(items)>> >>)

UNBOUND == <<"unbound">>

\* clean_json_string (process_prompts.py:13-42): the fence markers are removed,
\* then the first bracketed span is searched; without one it raises ValueError
clean_json_string(content) ==
    IF content[1] = "prose" THEN [ok |-> FALSE, text |-> content]
    ELSE IF content[1] = "fenced" THEN [ok |-> TRUE, text |-> <<"bare", content[2]>>]
    ELSE [ok |-> TRUE, text |-> content]

\* json.loads: the value, or JSONDecodeError
json_loads(text) ==
    IF text[1] = "bare" THEN [ok |-> TRUE, value |-> text[2]]
    ELSE [ok |-> FALSE, value |-> JStr(0)]

\* _make_request (openrouter.py:36-117) as its caller sees it:
\*   <<"ok", reply>>   a response whose content is reply
\*   <<"auth">>        ValueError("Invalid OpenRouter API key"), raised on 401
\*   <<"exhausted">>   RuntimeError, raised when all transport retries failed

(***************************************************************************)
(* Conversation messages: <<role, content>>, content a tagged tuple.       *)
(***************************************************************************)
Msg(role, content) == <<role, content>>
\* a prompt template with its {NUM_IDEAS} / {NUM} placeholder replaced by num
Prompt(name, num) == <<"prompt", name, num>>
\* the reply text of the model, as received
Raw(reply) == <<"raw", reply>>
\* json.dumps(items)
Dumps(items) == <<"dumps", items>>
\* the content of prompts/e1-wrong_format.txt
ErrorPrompt == <<"e1-wrong_format">>
SystemMsg(name) == Msg("system", <<"system", name>>)

\* what one pass of a retry loop does
Return(value, msgs, cont) ==
    [status |-> "return", value |-> value, error |-> "none", messages |-> msgs, content |-> cont]
Raise(error, msgs, cont) ==
    [status |-> "raise", value |-> JStr(0), error |-> error, messages |-> msgs, content |-> cont]
Retry(msgs, cont) ==
    [status |-> "retry", value |-> JStr(0), error |-> "none", messages |-> msgs, content |-> cont]

\* FormatFailure going on without the correction prompt when it cannot be read
FormatFailure_without_prompt(msgs, attempt_no, cont, max_retries, readable) ==
    IF attempt_no = max_retries - 1 THEN Raise("format_exhausted", msgs, cont)
    ELSE IF cont = UNBOUND THEN Raise("unbound_local", msgs, cont)
    ELSE LET with_reply == Append(msgs, Msg("assistant", cont))
         IN  IF ~readable THEN Retry(with_reply, cont)
             ELSE Retry(Append(with_reply, Msg("user", ErrorPrompt)), cont)

\* the except clause shared by handle_json_response (process_prompts.py:132-158)
\* and OpenRouterClient.generate_ideas (openrouter.py:256-282); cont is the local
\* variable content, UNBOUND while no assignment to it has run
FormatFailure(msgs, attempt_no, cont, max_retries, readable) ==
    IF attempt_no = max_retries - 1 THEN Raise("format_exhausted", msgs, cont)
    ELSE IF cont = UNBOUND THEN Raise("unbound_local", msgs, cont)
    ELSE LET with_reply == Append(msgs, Msg("assistant", cont))
         IN  IF ~readable THEN Raise("prompt_io", with_reply, cont)
             ELSE Retry(Append(with_reply, Msg("user", ErrorPrompt)), cont)

\* one pass of `for attempt in range(max_retries)` of handle_json_response
\* (process_prompts.py:119-158) with outcome o of client._make_request
handle_json_response(msgs, attempt_no, cont, max_retries, o, readable) ==
    IF o[1] = "exhausted" THEN Raise("transport_exhausted", msgs, cont)
    ELSE IF o[1] = "auth" THEN FormatFailure(msgs, attempt_no, cont, max_retries, readable)
    ELSE LET cleaned == clean_json_string(o[2])
             parsed == json_loads(cleaned.text)
         IN  IF cleaned.ok /\ parsed.ok THEN Return(parsed.value, msgs, Raw(o[2]))
             ELSE FormatFailure(msgs, attempt_no, Raw(o[2]), max_retries, readable)

\* one pass of the retry loop of OpenRouterClient.generate_ideas
\* (openrouter.py:238-282): the validation is inside the try block
openrouter_generate_ideas(msgs, attempt_no, cont, max_retries, o, readable) ==
    IF o[1] = "exhausted" THEN Raise("transport_exhausted", msgs, cont)
    ELSE IF o[1] = "auth" THEN FormatFailure(msgs, attempt_no, cont, max_retries, readable)
    ELSE LET cleaned == clean_json_string(o[2])
             parsed == json_loads(cleaned.text)
         IN  IF cleaned.ok /\ parsed.ok /\ validate_json_structure(parsed.value).ok
             THEN Return(JList(validate_json_structure(parsed.value).items), msgs, Raw(o[2]))
             ELSE FormatFailure(msgs, attempt_no, Raw(o[2]), max_retries, readable)

\* one pass of the retry loop of get_raw_json_response, which idea_generator.py
\* imports from process_prompts: a reply that parses is returned as parsed; a
\* failed reply gets the correction turn; the last failed reply is returned as
\* the raw string (tests/utils/test_process_prompts.py:53-114); transport and
\* authentication errors propagate
get_raw_json_response(msgs, attempt_no, cont, max_retries, o, readable) ==
    IF o[1] = "exhausted" THEN Raise("transport_exhausted", msgs, cont)
    ELSE IF o[1] = "auth" THEN Raise("auth", msgs, cont)
    ELSE LET cleaned == clean_json_string(o[2])
             parsed == json_loads(cleaned.text)
         IN  IF cleaned.ok /\ parsed.ok THEN Return(parsed.value, msgs, Raw(o[2]))
             ELSE IF attempt_no = max_retries - 1 THEN Return(JStr(0), msgs, Raw(o[2]))
             ELSE IF ~readable
                  THEN Raise("prompt_io", Append(msgs, Msg("assistant", Raw(o[2]))), Raw(o[2]))
             ELSE Retry(msgs \o << Msg("assistant", Raw(o[2])), Msg("user", ErrorPrompt) >>,
                        Raw(o[2]))

\* get_text_response, imported the same way: the content of the reply
\* (tests/utils/test_process_prompts.py:116-128); errors propagate
get_text_response(o) ==
    IF o[1] = "exhausted" THEN [ok |-> FALSE, error |-> "transport_exhausted", text |-> UNBOUND]
    ELSE IF o[1] = "auth" THEN [ok |-> FALSE, error |-> "auth", text |-> UNBOUND]
    ELSE [ok |-> TRUE, error |-> "none", text |-> Raw(o[2])]

(***************************************************************************)
(* State of one idea-generation call.                                      *)
(***************************************************************************)
VARIABLES
    path,               \* "pp" process_prompts.generate_ideas, "or" OpenRouterClient.generate_ideas,
                        \* "ig" IdeaGenerator.generate
    model_mode,         \* "faithful": every reply holds exactly the records asked for; "unreliable"
    garbage,            \* the form of the unreliable model's unparseable replies
    num_ideas,          \* the target count N
    max_format_retries, \* the format-retry budget k
    pc,                 \* "seed1", "seed2", "request", "done", "failed"
    error,              \* the exception that ended the call, "none" otherwise
    messages,           \* the conversation
    attempt,            \* the loop variable of the running retry loop
    content,            \* its local variable content
    all_ideas,          \* the accumulator
    remaining_ideas,
    validated_ideas,    \* the batch the next "more items" turn dumps: validated_ideas of
                        \* generate_ideas (its first batch), batch_ideas, validated_data
    nreq,               \* structured requests sent so far (saturates at MaxRequests)
    nseed,              \* plain-text seeding requests sent so far
    last_outcome,       \* what _make_request did in the last structured request
    prev_kind,          \* and the one before it
    all_invalid,        \* every structured request so far got a reply, and an invalid one
    all_exact,          \* every structured request so far got a valid batch of the count asked
    missing_prompt,     \* the prompt template of IdeaGenerator.generate that does not exist, or "none"
    output_dir,         \* file_handler.current_output_dir is set
    ideas_file,         \* the ideas file in the output directory
    nwrites,            \* times it was written
    last_readable,      \* the error-correction prompt could be read in the last structured request
    v_data,             \* validators on their own: the parsed value
    v_which,            \* the validator applied, "none" before
    v_result            \* its result

(***************************************************************************)
(* State of the transport client, OpenRouterClient._make_request           *)
(* (openrouter.py:36-117).                                                 *)
(***************************************************************************)
VARIABLES
    t_api_key,          \* self.api_key is set
    t_timeout,          \* self.timeout, the base timeout
    t_max_retries,      \* self.max_retries
    t_pc,               \* "idle", "attempt" (a requests.post is due), "returned", "raised"
    t_attempt,          \* the loop variable attempt
    t_last_error,       \* last_error
    t_result,           \* what the call returned or raised
    t_calls,            \* calls of _make_request so far
    t_outcome,          \* what the last requests.post of the running call met
    t_log               \* every requests.post so far: <<call, n, timeout>>

(***************************************************************************)
(* State of one dependency extraction: process_prompts.generate_dependencies *)
(* (process_prompts.py:335-376) or OpenRouterClient.collect_dependencies     *)
(* (openrouter.py:356-414).                                                  *)
(***************************************************************************)
VARIABLES
    d_path,             \* "pp" generate_dependencies, "or" collect_dependencies
    d_client,           \* "present"; "missing": client is None / no API key is set
    d_pc,               \* "request", "done", "raised"
    d_messages,
    d_attempt,          \* the loop variable of handle_json_response
    d_content,          \* its local variable content
    d_result,           \* <<"frameworks", list>> returned, <<"raised", e>>, <<"none">> before
    d_caught,           \* the exception the except clause absorbed, "none" otherwise
    d_nreq,             \* requests sent so far
    d_outcome,          \* what _make_request did in the last request
    d_all_invalid       \* every request so far got a reply, and an invalid one

(***************************************************************************)
(* State of one run of the response normalizer, clean_json_string          *)
(* (process_prompts.py:13-42, openrouter.py:119-148), on a reply text.     *)
(***************************************************************************)
VARIABLES
    c_pre,              \* the narrative before the JSON span
    c_span,             \* the JSON span
    c_post,             \* the narrative after it
    c_pc,               \* "idle", "ready", "done"
    c_result            \* what clean_json_string returned or raised

(***************************************************************************)
(* State of one reconciliation of a reply text: clean_json_string, then    *)
(* json.loads, then validate_json_structure (process_prompts.py:13-99).    *)
(***************************************************************************)
VARIABLES
    r_records,          \* the records of the JSON array the reply holds
    r_open,             \* what the reply has before the array
    r_close,            \* and after it
    r_pc,               \* "idle", "ready", "done"
    r_result            \* what the validator returned, or the error raised on the way

(***************************************************************************)
(* State of the dependency aggregation: DependencyCollector.collect_all    *)
(* (dependency_collector.py:215-270) and FileHandler.update_dependencies   *)
(* (file_handler.py:116-170) on one output directory.                      *)
(***************************************************************************)
VARIABLES
    s_ops,              \* the operations run so far, <<"idle">> when none can run
    s_dir,              \* the code directory the last collect_all scanned
    s_counter,          \* the framework counter its analyze_directory returned
    s_file,             \* dependencies.json
    s_prev,             \* dependencies.json before the last operation
    s_input,            \* new_deps of the last update_dependencies call
    s_seen              \* everything update_dependencies was given so far

(***************************************************************************)
(* State of a parallel stage: RequirementAnalyzer.analyze_all              *)
(* (requirement_analyzer.py:113-173) or CodeGenerator.generate             *)
(* (code_generator.py:133-218) with its ThreadPoolExecutor.                *)
(***************************************************************************)
VARIABLES
    p_call,             \* the stage, the ideas file, the requirements directory, max_workers
    p_units,            \* the submitted units: idea, output file, state, result
    p_main              \* the coordinating thread: pc, the futures it took, its results

(***************************************************************************)
(* State of the command line entry point, main (cli.py:183-279).           *)
(***************************************************************************)
VARIABLES
    cli                 \* main: pc, its arguments, the stage blocks it entered, the
                        \* result of each, the exit code, the working directory

ideaVars == << path, model_mode, garbage, num_ideas, max_format_retries, pc, error, messages,
               attempt, content, all_ideas, remaining_ideas, validated_ideas, nreq, nseed,
               last_outcome, prev_kind, all_invalid, all_exact,
               missing_prompt, output_dir, ideas_file, nwrites, last_readable >>
validatorVars == << v_data, v_which, v_result >>
transportVars == << t_api_key, t_timeout, t_max_retries, t_pc, t_attempt, t_last_error,
                    t_result, t_calls, t_outcome, t_log >>
depVars == << d_path, d_client, d_pc, d_messages, d_attempt, d_content, d_result, d_caught,
              d_nreq, d_outcome, d_all_invalid >>
cleanVars == << c_pre, c_span, c_post, c_pc, c_result >>
\* what a step of an idea-generation call leaves alone
\* the variables of the models that follow the normalizer
laterVars == << r_records, r_open, r_close, r_pc, r_result,
               s_ops, s_dir, s_counter, s_file, s_prev, s_input, s_seen,
               p_call, p_units, p_main, cli >>
sideVars == << validatorVars, transportVars, depVars, cleanVars, laterVars >>
vars == << ideaVars, validatorVars, transportVars, depVars, cleanVars, laterVars >>

\* Python's None: last_error = None, no result yet, the value of a call that
\* ends without a return statement
None == <<"None", 0>>
NoResult == [exc |-> "none", msg |-> "none", cause |-> None]

\* no validator runs on its own
ValidatorIdle == v_data = JStr(0) /\ v_which = "none" /\ v_result = Err("none", 0, "none")

\* no call of _make_request runs
TransportIdle ==
    /\ t_api_key = TRUE /\ t_timeout = 1 /\ t_max_retries = 0
    /\ t_pc = "idle" /\ t_attempt = 0 /\ t_last_error = None
    /\ t_result = NoResult /\ t_calls = 0 /\ t_outcome = <<"none">> /\ t_log = <<>>

\* no dependency extraction runs
DepsIdle ==
    /\ d_path = "pp" /\ d_client = "present" /\ d_pc = "idle" /\ d_messages = <<>>
    /\ d_attempt = 0 /\ d_content = UNBOUND /\ d_result = <<"none">> /\ d_caught = "none"
    /\ d_nreq = 0 /\ d_outcome = <<"none">> /\ d_all_invalid = TRUE

\* the normalizer is not running
CleanIdle ==
    /\ c_pre = <<>> /\ c_span = <<>> /\ c_post = <<>>
    /\ c_pc = "idle" /\ c_result = [ok |-> FALSE, text |-> <<>>]

\* none of the models that follow the normalizer runs
LaterIdle ==
    /\ r_records = <<>> /\ r_open = <<>> /\ r_close = <<>>
    /\ r_pc = "idle" /\ r_result = Err("none", 0, "none")
    /\ s_ops = <<"idle">> /\ s_dir = <<>> /\ s_counter = <<>>
    /\ s_file = [exists |-> FALSE, frameworks |-> <<>>, models |-> <<>>]
    /\ s_prev = [exists |-> FALSE, frameworks |-> <<>>, models |-> <<>>]
    /\ s_input = [frameworks |-> <<>>, models |-> <<>>]
    /\ s_seen = [frameworks |-> <<>>, models |-> <<>>]
    /\ p_call = [stage |-> "idle"] /\ p_units = <<>> /\ p_main = [pc |-> "idle"]
    /\ cli = [pc |-> "idle"]

\* nothing but the idea-generation call runs
SidesIdle == ValidatorIdle /\ TransportIdle /\ DepsIdle /\ CleanIdle /\ LaterIdle

\* generate_ideas_batch_size without the min
generate_ideas_batch_size_fixed(remaining) == PromptBatchSize

\* generate_ideas: min(25, remaining_ideas) (process_prompts.py:190, 213)
generate_ideas_batch_size(remaining) == Min(PromptBatchSize, remaining)
\* IdeaGenerator.generate: str(self.batch_size) (idea_generator.py:194, 231)
idea_generator_batch_size(remaining) == IdeaGeneratorBatchSize
\* Extend dropping the records the accumulator already holds
Extend_Dedup(ideas, batch) ==
    ideas \o SelectSeq(batch, LAMBDA x : \A i \in 1..Len(ideas) : ideas[i] # x)

\* all_ideas.extend(batch)
Extend(ideas, batch) == ideas \o batch

Schema(p) == IF p = "ig" THEN "min" ELSE "rich"
OtherSchema(p) == IF p = "ig" THEN "rich" ELSE "min"
\* the batch size B of the path; OpenRouterClient.generate_ideas sends one prompt
BatchSize(p) == IF p = "ig" THEN IdeaGeneratorBatchSize ELSE PromptBatchSize
\* the validator of the path
Validate(p, data) ==
    IF p = "ig" THEN validate_and_normalize_response(data) ELSE validate_json_structure(data)

\* the number substituted in the last prompt of the conversation
AskedIn(msgs) ==
    LET at == {i \in 1..Len(msgs) : msgs[i][2][1] = "prompt"}
    IN  msgs[CHOOSE i \in at : \A m \in at : m <= i][2][3]

\* the correction turns of the conversation: a reply followed by the error prompt
CorrectionTurns(msgs) ==
    {i \in 2..Len(msgs) : /\ msgs[i] = Msg("user", ErrorPrompt)
                          /\ msgs[i - 1][1] = "assistant"
                          /\ msgs[i - 1][2][1] = "raw"}

\* the replies the model may give to a request for `asked` records
Replies(p, mode, junk, asked) ==
    IF mode = "faithful" THEN { <<"bare", JList(Records(Schema(p), asked))>> }
    ELSE   { <<"bare", JList(Records(Schema(p), n))>> : n \in {0, 1, asked, asked + 1} }
      \cup { <<"fenced", JList(Records(Schema(p), asked))>>,
             <<"bare", JList(<<Record(Schema(p), 2)>>)>>,
             <<"bare", JList(Records(OtherSchema(p), 1))>>,
             <<"bare", JList(<<Record(Schema(p), 1), MissingFieldRecord(Schema(p))>>)>>,
             <<"bare", JList(<<WrongTypeRecord(Schema(p))>>)>>,
             <<"bare", Record(Schema(p), 1)>>,
             <<"bare", Wrapped(Records(Schema(p), 1))>>,
             <<junk, JStr(0)>> }

\* what _make_request may do
Outcomes(p, mode, junk, asked) ==
    { <<"ok", r>> : r \in Replies(p, mode, junk, asked) }
      \cup (IF mode = "faithful" THEN {} ELSE { <<"auth">>, <<"exhausted">> })

\* what a structured request met, told from the outcome alone
Classify(p, o) ==
    IF o[1] # "ok" THEN o[1]
    ELSE IF ~clean_json_string(o[2]).ok \/ ~json_loads(clean_json_string(o[2]).text).ok
         THEN "unparseable"
    ELSE IF ~Validate(p, json_loads(clean_json_string(o[2]).text).value).ok THEN "schema"
    ELSE "valid"

\* the batch a valid reply holds
BatchOf(p, o) == Validate(p, json_loads(clean_json_string(o[2]).text).value).items

\* what the last structured request met, "none" before the first
last_kind == Classify(path, last_outcome)

Bump(n) == IF n < MaxRequests THEN n + 1 ELSE n

IdeasInit ==
    /\ path \in {"pp", "or", "ig"}
    /\ model_mode \in {"faithful", "unreliable"}
    /\ garbage \in (IF model_mode = "faithful" THEN {"prose"} ELSE {"prose", "broken"})
    /\ num_ideas \in (1..MaxN) \cup (IF model_mode = "faithful" THEN LargeTargets ELSE {})
    /\ max_format_retries \in (IF path = "ig" THEN {DefaultMaxFormatRetries}
                               ELSE 0..DefaultMaxFormatRetries)
    /\ pc = IF path = "ig" THEN "seed1" ELSE "request"
    /\ error = "none"
    /\ messages =
         IF path = "pp"
         THEN << SystemMsg("product_manager_json"),
                 Msg("user", Prompt("prompt", generate_ideas_batch_size(num_ideas))) >>
         ELSE IF path = "or"
         THEN << SystemMsg("product_manager_json"), Msg("user", Prompt("prompt", num_ideas)) >>
         ELSE << SystemMsg("helpful_assistant"), Msg("user", <<"initial_prompt">>) >>
    /\ attempt = 0
    /\ content = UNBOUND
    /\ all_ideas = <<>>
    /\ remaining_ideas = num_ideas
    /\ validated_ideas = <<>>
    /\ nreq = 0
    /\ nseed = 0
    /\ last_outcome = <<"none">>
    /\ prev_kind = "none"
    /\ all_invalid = TRUE
    /\ all_exact = TRUE
    /\ missing_prompt \in (IF path = "ig" THEN {"none", "initial_prompt", "more_items_prompt"}
                           ELSE {"none"})
    /\ output_dir \in (IF path = "ig" THEN BOOLEAN ELSE {TRUE})
    /\ ideas_file \in (IF path = "ig" THEN {<<"absent">>, <<"stale">>} ELSE {<<"absent">>})
    /\ nwrites = 0
    /\ last_readable = TRUE

Init == IdeasInit /\ SidesIdle

\* the bookkeeping of one structured request with outcome o
Observe(o) ==
    /\ nreq' = Bump(nreq)
    /\ prev_kind' = Classify(path, last_outcome)
    /\ last_outcome' = o
    /\ all_invalid' = (all_invalid /\ Classify(path, o) \in {"unparseable", "schema"})
    /\ all_exact' = (/\ all_exact
                     /\ Classify(path, o) = "valid"
                     /\ Len(BatchOf(path, o)) = AskedIn(messages))

\* the call ends with exception e
Fail(e, msgs, cont) ==
    /\ pc' = "failed"
    /\ error' = e
    /\ messages' = msgs
    /\ content' = cont
    /\ UNCHANGED << attempt, all_ideas, remaining_ideas, validated_ideas, ideas_file, nwrites >>

\* the retry loop goes round
Again(msgs, cont) ==
    /\ messages' = msgs
    /\ content' = cont
    /\ attempt' = attempt + 1
    /\ UNCHANGED << pc, error, all_ideas, remaining_ideas, validated_ideas, ideas_file, nwrites >>

(***************************************************************************)
(* process_prompts.generate_ideas (process_prompts.py:160-236): one action *)
(* per request, from client._make_request to the next request or the end.  *)
(***************************************************************************)
\* after handle_json_response returned: lines 207-209 / 231-233, then the
\* loop test and lines 213-227.  The first batch is bound to validated_ideas
\* (line 207), the later ones to validated_batch (line 232), and line 219 dumps
\* validated_ideas.
PP_Returned(h) ==
    LET v == validate_json_structure(h.value)
        remaining == remaining_ideas - Len(v.items)
        initial == \A i \in DOMAIN h.messages :
                      h.messages[i][2][1] = "prompt" => h.messages[i][2][2] # "more_items"
        dumped == IF initial THEN v.items ELSE validated_ideas
    IN  IF ~v.ok THEN Fail("validation", h.messages, h.content)
        ELSE /\ all_ideas' = Extend(all_ideas, v.items)
             /\ remaining_ideas' = remaining
             /\ validated_ideas' = dumped
             /\ error' = error
             /\ UNCHANGED << ideas_file, nwrites >>
             /\ IF remaining > 0
                THEN /\ pc' = "request"
                     /\ messages' = h.messages \o
                          << Msg("assistant", Dumps(dumped)),
                             Msg("user", Prompt("more_items", generate_ideas_batch_size(remaining))) >>
                     /\ attempt' = 0
                     /\ content' = UNBOUND
                ELSE /\ pc' = "done"
                     /\ messages' = h.messages
                     /\ attempt' = attempt
                     /\ content' = h.content

\* With max_retries = 0 the loop of handle_json_response, for attempt in
\* range(max_retries) (process_prompts.py:122), has no pass: no request is made
\* and the function ends after the loop, where there is no statement.
PP_Request ==
    /\ path = "pp"
    /\ pc = "request"
    /\ IF max_format_retries = 0
       THEN /\ PP_Returned(Return(None, messages, content))
            /\ UNCHANGED << nreq, prev_kind, last_outcome, all_invalid, all_exact,
                            last_readable >>
       ELSE \E o \in Outcomes(path, model_mode, garbage, AskedIn(messages)),
                 readable \in BOOLEAN :
              LET h == handle_json_response(messages, attempt, content, max_format_retries,
                                            o, readable)
              IN  /\ Observe(o)
                  /\ last_readable' = readable
                  /\ IF h.status = "raise" THEN Fail(h.error, h.messages, h.content)
                     ELSE IF h.status = "retry" THEN Again(h.messages, h.content)
                     ELSE PP_Returned(h)
    /\ UNCHANGED << path, model_mode, garbage, num_ideas, max_format_retries, nseed,
                    missing_prompt, output_dir >>
    /\ UNCHANGED sideVars

(***************************************************************************)
(* OpenRouterClient.generate_ideas (openrouter.py:207-284).                *)
(***************************************************************************)
\* With max_format_retries = 0 the loop (openrouter.py:238) has no pass and the
\* raise after it (line 284) ends the call.
OR_Request ==
    /\ path = "or"
    /\ pc = "request"
    /\ IF max_format_retries = 0
       THEN /\ Fail("format_exhausted", messages, content)
            /\ UNCHANGED << nreq, prev_kind, last_outcome, all_invalid, all_exact,
                            last_readable >>
       ELSE \E o \in Outcomes(path, model_mode, garbage, AskedIn(messages)),
                 readable \in BOOLEAN :
              LET h == openrouter_generate_ideas(messages, attempt, content,
                                                 max_format_retries, o, readable)
              IN  /\ Observe(o)
                  /\ last_readable' = readable
                  /\ IF h.status = "raise" THEN Fail(h.error, h.messages, h.content)
                     ELSE IF h.status = "retry" THEN Again(h.messages, h.content)
                     ELSE /\ pc' = "done"
                          /\ validated_ideas' = h.value[2]
                          /\ messages' = h.messages
                          /\ content' = h.content
                          /\ UNCHANGED << error, attempt, all_ideas, remaining_ideas,
                                          ideas_file, nwrites >>
    /\ UNCHANGED << path, model_mode, garbage, num_ideas, max_format_retries, nseed,
                    missing_prompt, output_dir >>
    /\ UNCHANGED sideVars

(***************************************************************************)
(* IdeaGenerator.generate (idea_generator.py:128-257).                     *)
(***************************************************************************)
SeedOutcomes(mode, n) ==
    { <<"ok", <<"prose", JStr(n)>>>> }
      \cup (IF mode = "faithful" THEN {} ELSE { <<"auth">>, <<"exhausted">> })

\* The four _read_prompt calls (lines 148-152, _read_prompt lines 81-102), which raise
\* FileNotFoundError for a template that does not exist; then step 1 (lines 159-172):
\* the brainstorm exchange, then the messages of step 2
IG_Seed1 ==
    /\ path = "ig"
    /\ pc = "seed1"
    /\ IF missing_prompt # "none"
       THEN /\ Fail("file_not_found", messages, content)
            /\ nseed' = nseed
       ELSE /\ \E o \in SeedOutcomes(model_mode, 1) :
                 LET initial_response == get_text_response(o)
                 IN  IF ~initial_response.ok
                     THEN Fail(initial_response.error, messages, content)
                     ELSE /\ pc' = "seed2"
                          /\ messages' = << SystemMsg("helpful_assistant"),
                                            Msg("assistant", initial_response.text),
                                            Msg("user", <<"expand_prompt">>) >>
                          /\ UNCHANGED << error, attempt, content, all_ideas, remaining_ideas,
                                          validated_ideas, ideas_file, nwrites >>
            /\ nseed' = nseed + 1
    /\ UNCHANGED << path, model_mode, garbage, num_ideas, max_format_retries, nreq,
                    last_outcome, prev_kind, all_invalid, all_exact,
                    missing_prompt, output_dir, last_readable >>
    /\ UNCHANGED sideVars

\* IG_Seed2 with the brainstorm reply, not the narrowing reply, in the messages of step 3
IG_Seed2_carrying_brainstorm ==
    /\ path = "ig"
    /\ pc = "seed2"
    /\ \E o \in SeedOutcomes(model_mode, 2) :
         LET specific_response == get_text_response(o)
         IN  IF ~specific_response.ok
             THEN Fail(specific_response.error, messages, content)
             ELSE /\ pc' = "request"
                  /\ messages' = << SystemMsg("json_assistant"),
                                    messages[2],
                                    Msg("user", Prompt("list_prompt",
                                                       idea_generator_batch_size(remaining_ideas))) >>
                  /\ UNCHANGED << error, attempt, content, all_ideas, remaining_ideas,
                                  validated_ideas, ideas_file, nwrites >>
    /\ nseed' = nseed + 1
    /\ UNCHANGED << path, model_mode, garbage, num_ideas, max_format_retries, nreq,
                    last_outcome, prev_kind, all_invalid, all_exact,
                    missing_prompt, output_dir, last_readable >>
    /\ UNCHANGED sideVars

\* Step 2 (lines 174-191): the narrowing exchange, then the messages of step 3
IG_Seed2 ==
    /\ path = "ig"
    /\ pc = "seed2"
    /\ \E o \in SeedOutcomes(model_mode, 2) :
         LET specific_response == get_text_response(o)
         IN  IF ~specific_response.ok
             THEN Fail(specific_response.error, messages, content)
             ELSE /\ pc' = "request"
                  /\ messages' = << SystemMsg("json_assistant"),
                                    Msg("assistant", specific_response.text),
                                    Msg("user", Prompt("list_prompt",
                                                       idea_generator_batch_size(remaining_ideas))) >>
                  /\ UNCHANGED << error, attempt, content, all_ideas, remaining_ideas,
                                  validated_ideas, ideas_file, nwrites >>
    /\ nseed' = nseed + 1
    /\ UNCHANGED << path, model_mode, garbage, num_ideas, max_format_retries, nreq,
                    last_outcome, prev_kind, all_invalid, all_exact,
                    missing_prompt, output_dir, last_readable >>
    /\ UNCHANGED sideVars

\* IG_Returned with a correction turn for a reply that fails the validation
IG_Returned_correcting(h) ==
    LET v == validate_and_normalize_response(h.value)
        remaining == remaining_ideas - Len(v.items)
    IN  IF ~v.ok /\ attempt < max_format_retries - 1
        THEN Again(h.messages \o << Msg("assistant", h.content), Msg("user", ErrorPrompt) >>,
                   h.content)
        ELSE IF ~v.ok THEN Fail("validation", h.messages, h.content)
        ELSE /\ all_ideas' = Extend(all_ideas, v.items)
             /\ remaining_ideas' = remaining
             /\ validated_ideas' = v.items
             /\ IF remaining > 0
                THEN /\ pc' = "request"
                     /\ error' = error
                     /\ messages' =
                          << SystemMsg("json_assistant_more"),
                             Msg("assistant", Dumps(v.items)),
                             Msg("user", Prompt("more_items", idea_generator_batch_size(remaining))) >>
                     /\ attempt' = 0
                     /\ content' = UNBOUND
                     /\ UNCHANGED << ideas_file, nwrites >>
                ELSE /\ messages' = h.messages
                     /\ attempt' = attempt
                     /\ content' = h.content
                     /\ IF output_dir
                        THEN /\ pc' = "done"
                             /\ error' = error
                             /\ ideas_file' = <<"ideas", Extend(all_ideas, v.items)>>
                             /\ nwrites' = nwrites + 1
                        ELSE /\ pc' = "failed"
                             /\ error' = "no_output_directory"
                             /\ UNCHANGED << ideas_file, nwrites >>

\* IG_Returned with the file saved after every batch
IG_Returned_saving_each_batch(h) ==
    LET v == validate_and_normalize_response(h.value)
        remaining == remaining_ideas - Len(v.items)
    IN  IF ~v.ok THEN Fail("validation", h.messages, h.content)
        ELSE /\ all_ideas' = Extend(all_ideas, v.items)
             /\ remaining_ideas' = remaining
             /\ validated_ideas' = v.items
             /\ error' = error
             /\ ideas_file' = <<"ideas", Extend(all_ideas, v.items)>>
             /\ nwrites' = nwrites + 1
             /\ IF remaining > 0
                THEN /\ pc' = "request"
                     /\ messages' =
                          << SystemMsg("json_assistant_more"),
                             Msg("assistant", Dumps(v.items)),
                             Msg("user", Prompt("more_items", idea_generator_batch_size(remaining))) >>
                     /\ attempt' = 0
                     /\ content' = UNBOUND
                ELSE /\ pc' = "done"
                     /\ messages' = h.messages
                     /\ attempt' = attempt
                     /\ content' = h.content

\* after get_raw_json_response returned: _generate_batch line 126, then lines
\* 213-214 / 237-238, the loop test and lines 220-233; after the loop save_json
\* (line 243; file_handler.py:64-82), which raises ValueError when no output
\* directory was created and writes the accumulator otherwise
IG_Returned(h) ==
    LET v == validate_and_normalize_response(h.value)
        remaining == remaining_ideas - Len(v.items)
    IN  IF ~v.ok THEN Fail("validation", h.messages, h.content)
        ELSE /\ all_ideas' = Extend(all_ideas, v.items)
             /\ remaining_ideas' = remaining
             /\ validated_ideas' = v.items
             /\ IF remaining > 0
                THEN /\ pc' = "request"
                     /\ error' = error
                     /\ messages' =
                          << SystemMsg("json_assistant_more"),
                             Msg("assistant", Dumps(v.items)),
                             Msg("user", Prompt("more_items", idea_generator_batch_size(remaining))) >>
                     /\ attempt' = 0
                     /\ content' = UNBOUND
                     /\ UNCHANGED << ideas_file, nwrites >>
                ELSE /\ messages' = h.messages
                     /\ attempt' = attempt
                     /\ content' = h.content
                     /\ IF output_dir
                        THEN /\ pc' = "done"
                             /\ error' = error
                             /\ ideas_file' = <<"ideas", Extend(all_ideas, v.items)>>
                             /\ nwrites' = nwrites + 1
                        ELSE /\ pc' = "failed"
                             /\ error' = "no_output_directory"
                             /\ UNCHANGED << ideas_file, nwrites >>

\* Steps 3 and 4: one structured request of _generate_batch (max_retries = 3)
IG_Request ==
    /\ path = "ig"
    /\ pc = "request"
    /\ \E o \in Outcomes(path, model_mode, garbage, AskedIn(messages)), readable \in BOOLEAN :
         LET h == get_raw_json_response(messages, attempt, content, max_format_retries,
                                        o, readable)
         IN  /\ Observe(o)
             /\ last_readable' = readable
             /\ IF h.status = "raise" THEN Fail(h.error, h.messages, h.content)
                ELSE IF h.status = "retry" THEN Again(h.messages, h.content)
                ELSE IG_Returned(h)
    /\ UNCHANGED << path, model_mode, garbage, num_ideas, max_format_retries, nseed,
                    missing_prompt, output_dir >>
    /\ UNCHANGED sideVars

Next == PP_Request \/ OR_Request \/ IG_Seed1 \/ IG_Seed2 \/ IG_Request

Spec == Init /\ [][Next]_vars

\* a request that is due is sent: no step of the call waits for anything else
FairSpec == Init /\ [][Next]_vars /\ WF_vars(Next)

(***************************************************************************)
(* The validators on their own: each is applied once to a parsed value.    *)
(***************************************************************************)
Items ==
    { RichRecord(1), RichRecord(2), MinRecord(1),
      MissingFieldRecord("rich"), MissingFieldRecord("min"),
      WrongTypeRecord("rich"), WrongTypeRecord("min"),
      NonStringListRecord, JStr(9) }

SeqsUpTo(S, n) == UNION { [1..m -> S] : m \in 0..n }

\* parsed values: lists of items, single objects, wrapper objects, scalars
Candidates ==
    { JList(l) : l \in SeqsUpTo(Items, MaxLen) }
      \cup { x \in Items : IsDict(x) }
      \cup { Wrapped(l) : l \in SeqsUpTo(Items, 1) }
      \cup { JStr(9), JNum(1) }

\* no idea-generation call runs
IdeasIdle ==
    /\ path = "pp" /\ model_mode = "faithful" /\ garbage = "prose"
    /\ num_ideas = 1 /\ max_format_retries = DefaultMaxFormatRetries
    /\ pc = "idle" /\ error = "none" /\ messages = <<>>
    /\ attempt = 0 /\ content = UNBOUND
    /\ all_ideas = <<>> /\ remaining_ideas = 1 /\ validated_ideas = <<>>
    /\ nreq = 0 /\ nseed = 0 /\ last_outcome = <<"none">> /\ prev_kind = "none"
    /\ all_invalid = TRUE /\ all_exact = TRUE
    /\ missing_prompt = "none" /\ output_dir = TRUE
    /\ ideas_file = <<"absent">> /\ nwrites = 0 /\ last_readable = TRUE

ValidatorInit ==
    /\ IdeasIdle
    /\ TransportIdle /\ DepsIdle /\ CleanIdle /\ LaterIdle
    /\ v_data \in Candidates
    /\ v_which = "none"
    /\ v_result = Err("none", 0, "none")

ApplyValidator ==
    /\ v_which = "none"
    /\ \E p \in {"pp", "ig"} :
         /\ v_which' = p
         /\ v_result' = Validate(p, v_data)
    /\ UNCHANGED v_data
    /\ UNCHANGED << ideaVars, transportVars, depVars, cleanVars, laterVars >>

SpecValidate == ValidatorInit /\ [][ApplyValidator]_vars

(***************************************************************************)
(* The transport client on its own: OpenRouterClient._make_request         *)
(* (openrouter.py:36-117), one step per requests.post.                     *)
(***************************************************************************)
\* OpenRouterClient.__init__: timeout = 60, max_retries = 3
DefaultTimeout == 60
DefaultMaxRetries == 3
\* calls of _make_request made on one client
MaxCalls == 2

\* what one requests.post / raise_for_status / response.json() may meet:
\* a response, a 401, a Timeout, another HTTPError, another RequestException
NetworkOutcomes == { <<"ok">>, <<"401">>, <<"timeout">>, <<"http">>, <<"request">> }
Transient == {"timeout", "http", "request"}

\* current_timeout that does not grow
current_timeout_flat(timeout, attempt_no) == timeout

\* current_timeout = self.timeout * (attempt + 1)
current_timeout(timeout, attempt_no) == timeout * (attempt_no + 1)

\* try_post with the 401 test removed: raise_for_status turns 401 into an HTTPError
try_post_retry401(o) ==
    IF o[1] = "ok" THEN "return"
    ELSE IF o[1] = "401" THEN "except_http"
    ELSE IF o[1] = "timeout" THEN "except_timeout"
    ELSE IF o[1] = "http" THEN "except_http"
    ELSE "except_request"

\* the try block of one pass (lines 73-94) and the except clause that takes
\* what it raises (lines 96-109); ValueError is taken by none
try_post(o) ==
    IF o[1] = "ok" THEN "return"
    ELSE IF o[1] = "401" THEN "raise_value_error"
    ELSE IF o[1] = "timeout" THEN "except_timeout"
    ELSE IF o[1] = "http" THEN "except_http"
    ELSE "except_request"

\* last_error assigned only while it is None
set_last_error_first(last_error, e) == IF last_error = None THEN e ELSE last_error

\* last_error = e
set_last_error(last_error, e) == e

BadCredentials == [exc |-> "ValueError", msg |-> "invalid_api_key", cause |-> None]
MissingKey == [exc |-> "ValueError", msg |-> "api_key_missing", cause |-> None]

\* lines 111-117: the RuntimeError raised after the loop; only the messages of
\* the last two branches hold str(last_error)
exhausted_error(last_error) ==
    IF last_error[1] = "timeout"
    THEN [exc |-> "RuntimeError", msg |-> "timed_out", cause |-> None]
    ELSE IF last_error[1] = "http"
    THEN [exc |-> "RuntimeError", msg |-> "http_error_persisted", cause |-> last_error]
    ELSE [exc |-> "RuntimeError", msg |-> "request_failed", cause |-> last_error]

TransportInit ==
    /\ IdeasIdle /\ ValidatorIdle /\ DepsIdle /\ CleanIdle /\ LaterIdle
    /\ t_api_key \in BOOLEAN
    /\ t_timeout \in {1, 7, DefaultTimeout}
    /\ t_max_retries \in 0..DefaultMaxRetries
    /\ t_pc = "idle"
    /\ t_attempt = 0
    /\ t_last_error = None
    /\ t_result = NoResult
    /\ t_calls = 0
    /\ t_outcome = <<"none">>
    /\ t_log = <<>>

\* _make_request is called: lines 53-72 and the first test of the for loop
MakeRequest_Call ==
    /\ t_pc \in {"idle", "returned", "raised"}
    /\ t_calls < MaxCalls
    /\ t_calls' = t_calls + 1
    /\ t_attempt' = 0
    /\ t_last_error' = None
    /\ t_outcome' = <<"none">>
    /\ IF ~t_api_key
       THEN t_pc' = "raised" /\ t_result' = MissingKey
       ELSE IF t_max_retries = 0
       THEN t_pc' = "raised" /\ t_result' = exhausted_error(None)
       ELSE t_pc' = "attempt" /\ t_result' = NoResult
    /\ UNCHANGED << t_api_key, t_timeout, t_max_retries, t_log >>
    /\ UNCHANGED << ideaVars, validatorVars, depVars, cleanVars, laterVars >>

\* one pass of the for loop: the post with current_timeout, then the next test
\* of the loop and, when it ends, lines 111-117
MakeRequest_Attempt ==
    /\ t_pc = "attempt"
    /\ \E o \in NetworkOutcomes :
         LET e == <<o[1], t_attempt + 1>>
             last_error == set_last_error(t_last_error, e)
         IN  /\ t_outcome' = o
             /\ t_log' = Append(t_log, << t_calls, t_attempt + 1,
                                          current_timeout(t_timeout, t_attempt) >>)
             /\ IF try_post(o) = "return"
                THEN /\ t_pc' = "returned"
                     /\ t_result' = [exc |-> "none", msg |-> "response", cause |-> e]
                     /\ UNCHANGED << t_attempt, t_last_error >>
                ELSE IF try_post(o) = "raise_value_error"
                THEN /\ t_pc' = "raised"
                     /\ t_result' = BadCredentials
                     /\ UNCHANGED << t_attempt, t_last_error >>
                ELSE /\ t_last_error' = last_error
                     /\ IF t_attempt + 1 < t_max_retries
                        THEN /\ t_attempt' = t_attempt + 1
                             /\ UNCHANGED << t_pc, t_result >>
                        ELSE /\ t_pc' = "raised"
                             /\ t_result' = exhausted_error(last_error)
                             /\ UNCHANGED t_attempt
    /\ UNCHANGED << t_api_key, t_timeout, t_max_retries, t_calls >>
    /\ UNCHANGED << ideaVars, validatorVars, depVars, cleanVars, laterVars >>

SpecTransport == TransportInit /\ [][MakeRequest_Call \/ MakeRequest_Attempt]_vars

\* the posts of the running call
PostsOfCall == SelectSeq(t_log, LAMBDA r : r[1] = t_calls)

(***************************************************************************)
(* Dependency extraction for one file: process_prompts.generate_dependencies *)
(* (process_prompts.py:335-376) and OpenRouterClient.collect_dependencies    *)
(* (openrouter.py:356-414).                                                  *)
(***************************************************************************)
\* generate_dependencies: handle_json_response(..., max_retries=3)
DependenciesMaxRetries == 3

\* validate_dependencies (process_prompts.py:310-333); collect_dependencies
\* makes the same two tests (openrouter.py:397-404)
validate_dependencies(data) ==
    IF ~IsList(data) THEN Err("expected_list_response", 0, "none")
    ELSE IF ~AllStrings(data) THEN Err("frameworks_must_be_strings", 0, "none")
    ELSE Ok(data[2])

\* the replies of the model to a dependency prompt
DepReplies ==
    { <<"bare", JList(<<JStr(1), JStr(2)>>)>>,
      <<"fenced", JList(<<JStr(1)>>)>>,
      <<"bare", JList(<<>>)>>,
      <<"bare", JList(<<JStr(1), JNum(2)>>)>>,
      <<"bare", JList(<<JList(<<JStr(1)>>)>>)>>,
      <<"bare", JDict(<< <<"invalid", JStr(0)>> >>)>>,
      <<"fenced", JDict(<< <<"frameworks", JList(<<JStr(1)>>)>> >>)>>,
      <<"prose", JStr(0)>>,
      <<"broken", JStr(0)>> }

DepOutcomes == { <<"ok", r>> : r \in DepReplies } \cup { <<"auth">>, <<"exhausted">> }

\* what a dependency request met, told from the outcome alone
DepClassify(o) ==
    IF o[1] # "ok" THEN o[1]
    ELSE IF ~clean_json_string(o[2]).ok \/ ~json_loads(clean_json_string(o[2]).text).ok
         THEN "unparseable"
    ELSE IF ~validate_dependencies(json_loads(clean_json_string(o[2]).text).value).ok
         THEN "schema"
    ELSE "valid"

\* the classes of the exceptions that can reach the outer except clause
ExceptionClass(e) ==
    IF e \in {"format_exhausted", "validation", "auth", "api_key_missing", "no_json_found",
              "json_decode"}
    THEN "ValueError"
    ELSE IF e \in {"transport_exhausted", "prompt_io"} THEN "RuntimeError"
    ELSE IF e = "unbound_local" THEN "UnboundLocalError"
    ELSE "AttributeError"

\* an except clause for the format errors only
Catches_ValueErrorOnly(e) == ExceptionClass(e) = "ValueError"

\* `except Exception as e`
Catches(e) == ExceptionClass(e) \in {"ValueError", "RuntimeError", "UnboundLocalError",
                                     "AttributeError"}

EmptyFrameworks == <<"frameworks", <<>>>>

DepsInit ==
    /\ IdeasIdle /\ ValidatorIdle /\ TransportIdle /\ CleanIdle /\ LaterIdle
    /\ d_path \in {"pp", "or"}
    /\ d_client \in {"present", "missing"}
    /\ d_pc = "request"
    /\ d_messages = << SystemMsg("production_engineer"), Msg("user", <<"full_prompt">>) >>
    /\ d_attempt = 0
    /\ d_content = UNBOUND
    /\ d_result = <<"none">>
    /\ d_caught = "none"
    /\ d_nreq = 0
    /\ d_outcome = <<"none">>
    /\ d_all_invalid = TRUE

\* exception e leaves the try block
DepExcept(e, msgs, cont) ==
    /\ d_messages' = msgs
    /\ d_content' = cont
    /\ UNCHANGED d_attempt
    /\ IF Catches(e)
       THEN d_pc' = "done" /\ d_result' = EmptyFrameworks /\ d_caught' = e
       ELSE d_pc' = "raised" /\ d_result' = <<"raised", e>> /\ d_caught' = "none"

DepReturn(frameworks, msgs, cont) ==
    /\ d_messages' = msgs
    /\ d_content' = cont
    /\ d_pc' = "done"
    /\ d_result' = <<"frameworks", frameworks>>
    /\ UNCHANGED << d_attempt, d_caught >>

DepObserve(o) ==
    /\ d_nreq' = d_nreq + 1
    /\ d_outcome' = o
    /\ d_all_invalid' = (d_all_invalid /\ DepClassify(o) \in {"unparseable", "schema"})

\* generate_dependencies with client = None: client._make_request raises
\* AttributeError in handle_json_response, before any request
GenerateDependencies_NoClient ==
    /\ d_path = "pp"
    /\ d_pc = "request"
    /\ d_client = "missing"
    /\ DepExcept("attribute_error", d_messages, d_content)
    /\ UNCHANGED << d_path, d_client, d_nreq, d_outcome, d_all_invalid >>
    /\ UNCHANGED << ideaVars, validatorVars, transportVars, cleanVars, laterVars >>

\* generate_dependencies: one request of handle_json_response, then lines 370-376
GenerateDependencies_Request ==
    /\ d_path = "pp"
    /\ d_pc = "request"
    /\ d_client = "present"
    /\ \E o \in DepOutcomes, readable \in BOOLEAN :
         LET h == handle_json_response(d_messages, d_attempt, d_content,
                                       DependenciesMaxRetries, o, readable)
             v == validate_dependencies(h.value)
         IN  /\ DepObserve(o)
             /\ IF h.status = "raise" THEN DepExcept(h.error, h.messages, h.content)
                ELSE IF h.status = "retry"
                THEN /\ d_messages' = h.messages
                     /\ d_content' = h.content
                     /\ d_attempt' = d_attempt + 1
                     /\ UNCHANGED << d_pc, d_result, d_caught >>
                ELSE IF ~v.ok THEN DepExcept("validation", h.messages, h.content)
                ELSE DepReturn(v.items, h.messages, h.content)
    /\ UNCHANGED << d_path, d_client >>
    /\ UNCHANGED << ideaVars, validatorVars, transportVars, cleanVars, laterVars >>

\* collect_dependencies: the whole call, one request without a retry loop; with
\* no API key _make_request raises ValueError before any request
CollectDependencies ==
    /\ d_path = "or"
    /\ d_pc = "request"
    /\ IF d_client = "missing"
       THEN /\ DepExcept("api_key_missing", d_messages, d_content)
            /\ UNCHANGED << d_nreq, d_outcome, d_all_invalid >>
       ELSE \E o \in DepOutcomes :
              /\ DepObserve(o)
              /\ IF o[1] = "exhausted"
                 THEN DepExcept("transport_exhausted", d_messages, d_content)
                 ELSE IF o[1] = "auth" THEN DepExcept("auth", d_messages, d_content)
                 ELSE LET cleaned == clean_json_string(o[2])
                          parsed == json_loads(cleaned.text)
                          v == validate_dependencies(parsed.value)
                      IN  IF ~cleaned.ok THEN DepExcept("no_json_found", d_messages, Raw(o[2]))
                          ELSE IF ~parsed.ok
                          THEN DepExcept("json_decode", d_messages, Raw(o[2]))
                          ELSE IF ~v.ok THEN DepReturn(<<>>, d_messages, Raw(o[2]))
                          ELSE DepReturn(v.items, d_messages, Raw(o[2]))
    /\ UNCHANGED << d_path, d_client >>
    /\ UNCHANGED << ideaVars, validatorVars, transportVars, cleanVars, laterVars >>

SpecDeps ==
    DepsInit
      /\ [][GenerateDependencies_NoClient \/ GenerateDependencies_Request
              \/ CollectDependencies]_vars

(***************************************************************************)
(* The response normalizer on a reply text: clean_json_string              *)
(* (process_prompts.py:13-42), the same code as                            *)
(* OpenRouterClient._clean_json_string (openrouter.py:119-148).  A text is *)
(* a sequence of characters: the four brackets, "a" for any other visible  *)
(* character, " " for whitespace and "F" for a fence marker (three         *)
(* backquotes with or without the word json).                              *)
(***************************************************************************)
\* longest narrative before and after the JSON span
MaxNarrative == 2

\* JSON texts: {"a": ...}, [...], a list of objects, an object holding a list
JsonSpans ==
    { <<"{", "a", "}">>,
      <<"[", "a", "]">>,
      <<"[", "{", "a", "}", "]">>,
      <<"{", "a", " ", "[", "a", "]", "}">> }

\* the number of whitespace characters s starts with
RECURSIVE LeadingSpaces(_)
LeadingSpaces(s) ==
    IF s = <<>> \/ Head(s) # " " THEN 0 ELSE 1 + LeadingSpaces(Tail(s))

\* s without the positions in gone
Without(s, gone) ==
    LET kept == SelectSeq([i \in 1..Len(s) |-> i], LAMBDA i : i \notin gone)
    IN  [k \in 1..Len(kept) |-> s[kept[k]]]

\* re.sub(r'<fence>(?:json)?\s*', '', content), <fence> being three backquotes:
\* every marker goes, with the whitespace that follows it
sub_fence_open(s) ==
    Without(s, { i \in 1..Len(s) :
                   \E j \in 1..i : s[j] = "F" /\ \A m \in (j + 1)..i : s[m] = " " })

\* re.sub(r'\s*<fence>', '', content): every marker goes, with the whitespace
\* before it
sub_fence_close(s) ==
    Without(s, { i \in 1..Len(s) :
                   \E j \in i..Len(s) : s[j] = "F" /\ \A m \in i..(j - 1) : s[m] = " " })

\* content.strip()
RECURSIVE rstrip(_)
rstrip(s) == IF s = <<>> \/ s[Len(s)] # " " THEN s ELSE rstrip(SubSeq(s, 1, Len(s) - 1))
strip(s) == rstrip(SubSeq(s, LeadingSpaces(s) + 1, Len(s)))

Closer(c) == IF c = "{" THEN "}" ELSE "]"

\* the positions where r'(?:\{[\s\S]*\}|\[[\s\S]*\])' can match: an opening
\* bracket with a closing bracket of its kind somewhere after it
MatchStarts(s) ==
    { i \in 1..Len(s) : /\ s[i] \in {"{", "["}
                        /\ \E j \in (i + 1)..Len(s) : s[j] = Closer(s[i]) }

\* re.search(json_pattern, content): the leftmost match; [\s\S]* is greedy, so
\* the match runs to the last closing bracket of the kind
re_search(s) ==
    IF MatchStarts(s) = {} THEN [ok |-> FALSE, text |-> s]
    ELSE LET i == CHOOSE x \in MatchStarts(s) : \A y \in MatchStarts(s) : x <= y
             ends == { j \in (i + 1)..Len(s) : s[j] = Closer(s[i]) }
             j == CHOOSE x \in ends : \A y \in ends : y <= x
         IN  [ok |-> TRUE, text |-> SubSeq(s, i, j)]

\* clean_json_string on a text: match.group(0), or ValueError when ok is FALSE
clean_json_text(s) == re_search(strip(sub_fence_close(sub_fence_open(s))))

Narratives == SeqsUpTo({"a", " ", "{", "}", "[", "]", "F"}, MaxNarrative)

CleanInit ==
    /\ IdeasIdle /\ ValidatorIdle /\ TransportIdle /\ DepsIdle /\ LaterIdle
    /\ c_pre \in Narratives
    /\ c_span \in JsonSpans
    /\ c_post \in Narratives
    /\ c_pc = "ready"
    /\ c_result = [ok |-> FALSE, text |-> <<>>]

CleanJsonString ==
    /\ c_pc = "ready"
    /\ c_pc' = "done"
    /\ c_result' = clean_json_text(c_pre \o c_span \o c_post)
    /\ UNCHANGED << c_pre, c_span, c_post >>
    /\ UNCHANGED << ideaVars, validatorVars, transportVars, depVars, laterVars >>

SpecClean == CleanInit /\ [][CleanJsonString]_vars

(***************************************************************************)
(* Reconciling a reply: clean_json_string, json.loads and                  *)
(* validate_json_structure in a row (process_prompts.py:126-130, 207), on  *)
(* the text of a reply that holds a JSON array of records.  The text is a  *)
(* sequence of characters as above, with the double quote, the comma and   *)
(* the colon; the quoted name of a field is kept as one character.         *)
(***************************************************************************)
\* json.dumps(v) for a value made of strings, lists and objects
RECURSIVE json_text(_)
json_text(v) ==
    LET RECURSIVE Join(_)
        \* ", ".join(texts)
        Join(texts) ==
            IF texts = <<>> THEN <<>>
            ELSE IF Len(texts) = 1 THEN texts[1]
            ELSE texts[1] \o <<",", " ">> \o Join(Tail(texts))
    IN  IF IsStr(v) THEN <<"\"">> \o v[2] \o <<"\"">>
        ELSE IF IsList(v)
             THEN <<"[">> \o Join([i \in 1..Len(v[2]) |-> json_text(v[2][i])]) \o <<"]">>
        ELSE <<"{">>
               \o Join([i \in 1..Len(v[2]) |-> <<v[2][i][1], ":", " ">> \o json_text(v[2][i][2])])
               \o <<"}">>

\* json.loads(text): the value, or JSONDecodeError (ok is FALSE); whitespace
\* between the tokens is skipped, text after the value is an error
json_loads_text(s) ==
    LET Keys == { required_fields[j][1] : j \in 1..Len(required_fields) }
        NoValue == [ok |-> FALSE, value |-> JStr(<<>>), next |-> 0]
        ValueAt(v, n) == [ok |-> TRUE, value |-> v, next |-> n]
        RECURSIVE Skip(_)
        \* the first position from i on that holds no whitespace
        Skip(i) == IF i <= Len(s) /\ s[i] = " " THEN Skip(i + 1) ELSE i
        \* the string literal that starts at the quote at i
        String(i) ==
            LET ends == { j \in (i + 1)..Len(s) : s[j] = "\"" }
            IN  IF ends = {} THEN NoValue
                ELSE LET j == CHOOSE x \in ends : \A y \in ends : x <= y
                     IN  ValueAt(JStr(SubSeq(s, i + 1, j - 1)), j + 1)
        RECURSIVE Value(_)
        RECURSIVE Elements(_, _)
        RECURSIVE Members(_, _)
        \* the value that starts at or after i
        Value(i) ==
            LET k == Skip(i)
            IN  IF k > Len(s) THEN NoValue
                ELSE IF s[k] = "\"" THEN String(k)
                ELSE IF s[k] = "["
                     THEN IF Skip(k + 1) <= Len(s) /\ s[Skip(k + 1)] = "]"
                          THEN ValueAt(JList(<<>>), Skip(k + 1) + 1)
                          ELSE Elements(k + 1, <<>>)
                ELSE IF s[k] = "{"
                     THEN IF Skip(k + 1) <= Len(s) /\ s[Skip(k + 1)] = "}"
                          THEN ValueAt(JDict(<<>>), Skip(k + 1) + 1)
                          ELSE Members(k + 1, <<>>)
                ELSE NoValue
        \* the elements of an array, from i on
        Elements(i, items) ==
            LET v == Value(i)
                k == Skip(v.next)
            IN  IF ~v.ok \/ k > Len(s) THEN NoValue
                ELSE IF s[k] = "," THEN Elements(k + 1, Append(items, v.value))
                ELSE IF s[k] = "]" THEN ValueAt(JList(Append(items, v.value)), k + 1)
                ELSE NoValue
        \* the members of an object, from i on
        Members(i, pairs) ==
            LET k == Skip(i)
                c == Skip(k + 1)
            IN  IF k > Len(s) \/ c > Len(s) THEN NoValue
                ELSE IF s[k] \notin Keys \/ s[c] # ":" THEN NoValue
                ELSE LET v == Value(c + 1)
                         m == Skip(v.next)
                     IN  IF ~v.ok \/ m > Len(s) THEN NoValue
                         ELSE IF s[m] = ","
                              THEN Members(m + 1, Append(pairs, <<s[k], v.value>>))
                         ELSE IF s[m] = "}"
                              THEN ValueAt(JDict(Append(pairs, <<s[k], v.value>>)), m + 1)
                         ELSE NoValue
        top == Value(1)
    IN  IF top.ok /\ Skip(top.next) > Len(s) THEN [ok |-> TRUE, value |-> top.value]
        ELSE [ok |-> FALSE, value |-> JStr(<<>>)]

\* clean_json_string, json.loads, validate_json_structure
reconcile(text) ==
    LET cleaned == clean_json_text(text)
        parsed == json_loads_text(cleaned.text)
    IN  IF ~cleaned.ok THEN Err("no_json_structure", 0, "none")
        ELSE IF ~parsed.ok THEN Err("json_decode", 0, "none")
        ELSE validate_json_structure(parsed.value)

\* longest array of records in a reply
MaxRecords == 2

\* the string values of the records: plain text, and text that quotes a fence marker
ReplyStrings == { <<"a">>, <<"b">>, <<"a", "F", "b">> }

\* A reply is the array, bare or with the opening marker of a fence before it
\* and the closing marker after it, either of which may be missing.
RoundTripInit ==
    /\ IdeasIdle /\ ValidatorIdle /\ TransportIdle /\ DepsIdle /\ CleanIdle
    /\ s_ops = <<"idle">> /\ s_dir = <<>> /\ s_counter = <<>>
    /\ s_file = [exists |-> FALSE, frameworks |-> <<>>, models |-> <<>>]
    /\ s_prev = s_file
    /\ s_input = [frameworks |-> <<>>, models |-> <<>>]
    /\ s_seen = s_input
    /\ p_call = [stage |-> "idle"] /\ p_units = <<>> /\ p_main = [pc |-> "idle"]
    /\ cli = [pc |-> "idle"]
    /\ r_records \in SeqsUpTo({ RichRecord(x) : x \in ReplyStrings }, MaxRecords) \ { <<>> }
    /\ r_open \in { <<>>, <<"F">>, <<"F", " ">>, <<" ", "F", " ">> }
    /\ r_close \in { <<>>, <<"F">>, <<" ", "F">>, <<" ", "F", " ">> }
    /\ r_pc = "ready"
    /\ r_result = Err("none", 0, "none")

ReconcileReply ==
    /\ r_pc = "ready"
    /\ r_pc' = "done"
    /\ r_result' = reconcile(r_open \o json_text(JList(r_records)) \o r_close)
    /\ UNCHANGED << r_records, r_open, r_close >>
    /\ UNCHANGED << s_ops, s_dir, s_counter, s_file, s_prev, s_input, s_seen >>
    /\ UNCHANGED << p_call, p_units, p_main, cli >>
    /\ UNCHANGED << ideaVars, validatorVars, transportVars, depVars, cleanVars >>

SpecRoundTrip == RoundTripInit /\ [][ReconcileReply]_vars

(***************************************************************************)
(* The dependency aggregation: DependencyCollector (dependency_collector.py) *)
(* and FileHandler.update_dependencies (file_handler.py:116-170).  A code    *)
(* file is kept as what the import and model patterns of its language find   *)
(* in it, in order and with repeats.  The output directory has been created. *)
(***************************************************************************)
\* most files in a code directory
MaxFiles == 2
\* most operations on one output directory
MaxRuns == 2
\* longest list of names given to update_dependencies
MaxNames == 2

FileKinds ==
    << [ext |-> "py", readable |-> TRUE, imports |-> <<"Flask", "os", "Flask">>,
        models |-> <<"bert">>],
       [ext |-> "js", readable |-> TRUE, imports |-> <<"flask", "numpy">>, models |-> <<>>],
       [ext |-> "ts", readable |-> TRUE, imports |-> <<"FLASK">>, models |-> <<>>],
       [ext |-> "py", readable |-> FALSE, imports |-> <<"numpy">>, models |-> <<>>],
       [ext |-> "txt", readable |-> TRUE, imports |-> <<"numpy">>, models |-> <<>>] >>

\* the order of Python strings on the names of the model
NameOrder == <<"FLASK", "Flask", "bert", "flask", "numpy", "os">>

\* str.lower()
Lower(name) == IF name \in {"FLASK", "Flask"} THEN "flask" ELSE name

\* analyze_file (dependency_collector.py:89-129): two sets
analyze_file(f) ==
    IF ~f.readable THEN [frameworks |-> {}, models |-> {}]
    ELSE [frameworks |->
            (IF f.ext \in {"py", "js", "ts"} THEN { f.imports[i] : i \in 1..Len(f.imports) }
             ELSE {}) \ {"os", "sys", "json", "typing"},
          models |-> { f.models[i] : i \in 1..Len(f.models) }]

\* analyze_directory taking the names for a set: a name counts once
analyze_directory_as_set(directory) ==
    LET found(kind) ==
            UNION { analyze_file(directory[i])[kind] :
                      i \in { j \in 1..Len(directory) : directory[j].ext \in {"py", "js", "ts"} } }
    IN  [frameworks |-> [n \in found("frameworks") |-> 1],
         models |-> [n \in found("models") |-> 1]]

\* analyze_directory (dependency_collector.py:131-157): two Counters, updated
\* with the sets of each file that ends in .py, .js or .ts
analyze_directory(directory) ==
    LET update(counter, names) ==
            [n \in (DOMAIN counter) \cup names |->
                (IF n \in DOMAIN counter THEN counter[n] ELSE 0) + (IF n \in names THEN 1 ELSE 0)]
        RECURSIVE walk(_, _, _)
        walk(i, framework_counter, model_counter) ==
            IF i > Len(directory)
            THEN [frameworks |-> framework_counter, models |-> model_counter]
            ELSE IF directory[i].ext \notin {"py", "js", "ts"}
                 THEN walk(i + 1, framework_counter, model_counter)
            ELSE walk(i + 1,
                      update(framework_counter, analyze_file(directory[i]).frameworks),
                      update(model_counter, analyze_file(directory[i]).models))
    IN  walk(1, <<>>, <<>>)

\* {"name": ..., "count": ...}
Entry(name, count) == JDict(<< <<"name", name>>, <<"count", JNum(count)>> >>)

\* _normalize_dependency_data (dependency_collector.py:159-193): the counters as
\* lists of entries, sorted by name
normalize_dependency_data(data) ==
    LET rank(n) == CHOOSE k \in 1..Len(NameOrder) : NameOrder[k] = n
        sorted(counter) ==
            [k \in 1..Cardinality(DOMAIN counter) |->
                LET n == CHOOSE x \in DOMAIN counter :
                           Cardinality({ y \in DOMAIN counter : rank(y) < rank(x) }) = k - 1
                IN  Entry(JStr(n), counter[n])]
    IN  [frameworks |-> sorted(data.frameworks), models |-> sorted(data.models)]

\* update_dependencies leaving the count of a name it finds as it is
update_dependencies_no_increment(current, new_deps) ==
    LET RECURSIVE merge(_, _)
        merge(list, new) ==
            IF new = <<>> THEN list
            ELSE IF \E i \in 1..Len(list) :
                      /\ GetKey(list[i], "name")[1] = Head(new)[1]
                      /\ GetKey(list[i], "name") = Head(new)
                 THEN merge(list, Tail(new))
            ELSE merge(Append(list, Entry(Head(new), 1)), Tail(new))
    IN  [exists |-> TRUE,
         frameworks |-> merge(current.frameworks, new_deps.frameworks),
         models |-> merge(current.models, new_deps.models)]

\* update_dependencies (file_handler.py:116-170): the file after the call; a
\* file that does not exist counts as two empty lists
update_dependencies(current, new_deps) ==
    LET RECURSIVE merge(_, _)
        \* the loop over new_deps[...]: the first entry whose name equals the new
        \* item gets its count incremented; without one, an entry is appended
        merge(list, new) ==
            IF new = <<>> THEN list
            ELSE LET same == { i \in 1..Len(list) :
                                 /\ GetKey(list[i], "name")[1] = Head(new)[1]
                                 /\ GetKey(list[i], "name") = Head(new) }
                 IN  IF same = {} THEN merge(Append(list, Entry(Head(new), 1)), Tail(new))
                     ELSE LET i == CHOOSE x \in same : \A y \in same : x <= y
                          IN  merge([list EXCEPT ![i] =
                                       Entry(Head(new), GetKey(list[i], "count")[2] + 1)],
                                    Tail(new))
    IN  [exists |-> TRUE,
         frameworks |-> merge(current.frameworks, new_deps.frameworks),
         models |-> merge(current.models, new_deps.models)]

ScanInit ==
    /\ IdeasIdle /\ ValidatorIdle /\ TransportIdle /\ DepsIdle /\ CleanIdle
    /\ r_records = <<>> /\ r_open = <<>> /\ r_close = <<>>
    /\ r_pc = "idle" /\ r_result = Err("none", 0, "none")
    /\ p_call = [stage |-> "idle"] /\ p_units = <<>> /\ p_main = [pc |-> "idle"]
    /\ cli = [pc |-> "idle"]
    /\ s_ops = <<>>
    /\ s_dir = <<>>
    /\ s_counter = <<>>
    /\ s_file = [exists |-> FALSE, frameworks |-> <<>>, models |-> <<>>]
    /\ s_prev = s_file
    /\ s_input = [frameworks |-> <<>>, models |-> <<>>]
    /\ s_seen = s_input

\* what every call of update_dependencies does to the state
Updated(op, new_deps) ==
    /\ s_ops' = Append(s_ops, op)
    /\ s_prev' = s_file
    /\ s_file' = update_dependencies(s_file, new_deps)
    /\ s_input' = new_deps
    /\ s_seen' = [frameworks |-> s_seen.frameworks \o new_deps.frameworks,
                  models |-> s_seen.models \o new_deps.models]
    /\ UNCHANGED << r_records, r_open, r_close, r_pc, r_result >>
    /\ UNCHANGED << p_call, p_units, p_main, cli >>
    /\ UNCHANGED << ideaVars, validatorVars, transportVars, depVars, cleanVars >>

\* collect_all (dependency_collector.py:215-270) on a code directory inside the
\* output directory: up to MaxFiles files, in the order os.walk lists them
CollectAll ==
    /\ s_ops # <<"idle">>
    /\ Len(s_ops) < MaxRuns
    /\ \E code_dir \in { [i \in 1..Len(d) |-> FileKinds[d[i]]] :
                          d \in { e \in SeqsUpTo(1..Len(FileKinds), MaxFiles) :
                                    \A i \in 1..(Len(e) - 1) : e[i] <= e[i + 1] } } :
         /\ s_dir' = code_dir
         /\ s_counter' = analyze_directory(code_dir).frameworks
         /\ Updated("collect_all", normalize_dependency_data(analyze_directory(code_dir)))

\* update_dependencies called with lists of names (tests/utils/test_file_handler.py:105-155)
UpdateDependencies ==
    /\ s_ops # <<"idle">>
    /\ Len(s_ops) < MaxRuns
    /\ \E frameworks \in SeqsUpTo({JStr("flask"), JStr("numpy")}, MaxNames),
          models \in {<<>>, <<JStr("bert")>>} :
         Updated("update_dependencies", [frameworks |-> frameworks, models |-> models])
    /\ UNCHANGED << s_dir, s_counter >>

SpecScan == ScanInit /\ [][CollectAll \/ UpdateDependencies]_vars

(***************************************************************************)
(* The parallel stages.  RequirementAnalyzer.analyze_all submits one unit   *)
(* per record of the ideas file, CodeGenerator.generate one unit per        *)
(* requirements file that matches a record.  A unit is a call of            *)
(* _process_idea_parallel or _generate_code_for_idea on a worker thread:    *)
(* it is queued, runs when one of the max_workers threads is free, makes    *)
(* its request, and, when the reply is usable, opens its output file,       *)
(* writes it and closes it.  Opening and closing the file are two steps, so *)
(* that two threads inside the with open(...) block of one path can be seen.*)
(* The coordinating thread takes the results of the futures and leaves the  *)
(* with block of the executor, which waits for every submitted unit.        *)
(***************************************************************************)

\* most records in the ideas file and most files in the requirements directory
MaxUnits == 2
\* largest parallel_requests
MaxWorkers == 2

\* The records of an ideas file: the name of the idea and the keys that hold it.
\* IdeaGenerator writes records with "Idea" (idea_generator.py:66) and whatever
\* else the model sent; process_prompts.generate_ideas writes records with
\* "Product Idea" and the other fields _format_prompt reads (process_prompts.py:65).
IdeaRecords ==
    [name : {"A B", "a-b", "c"},
     keys : { {"Idea"}, {"Idea", "Product Idea"}, {"Product Idea"} }]

\* idea['Product Idea'].lower().replace(' ', '_') (requirement_analyzer.py:88),
\* the part of the file name between requirements_ and .txt
requirements_filename(name) == IF name = "A B" THEN "a_b" ELSE name

\* _normalize_string (code_generator.py:26-37): lower, runs of other characters
\* than a-z0-9 to one underscore, underscores stripped at both ends
normalize_string(s) == IF s \in {"A B", "a-b", "a_b"} THEN "a_b" ELSE s

\* _find_matching_idea (code_generator.py:48-74) on the part of the file name
\* between requirements_ and .txt: the first record with the normalized name,
\* None when there is none or when a record before it has no "Idea"
find_matching_idea(ideas, requirements_name) ==
    LET hits == { i \in DOMAIN ideas :
                    \/ "Idea" \notin ideas[i].keys
                    \/ normalize_string(ideas[i].name) = normalize_string(requirements_name) }
        first == CHOOSE i \in hits : \A j \in hits : i <= j
    IN  IF hits = {} \/ "Idea" \notin ideas[first].keys THEN <<"None">>
        ELSE <<"idea", ideas[first]>>

\* a call of a parallel stage
PoolInit ==
    /\ IdeasIdle /\ ValidatorIdle /\ TransportIdle /\ DepsIdle /\ CleanIdle
    /\ r_records = <<>> /\ r_open = <<>> /\ r_close = <<>>
    /\ r_pc = "idle" /\ r_result = Err("none", 0, "none")
    /\ s_ops = <<"idle">> /\ s_dir = <<>> /\ s_counter = <<>>
    /\ s_file = [exists |-> FALSE, frameworks |-> <<>>, models |-> <<>>]
    /\ s_prev = s_file
    /\ s_input = [frameworks |-> <<>>, models |-> <<>>]
    /\ s_seen = s_input
    /\ p_call \in { c \in [stage : {"requirements", "code"},
                          ideas : SeqsUpTo(IdeaRecords, MaxUnits),
                          listing : SeqsUpTo({"a_b", "a-b", "c"}, MaxUnits),
                          max_workers : 1..MaxWorkers] :
                     /\ c.stage = "requirements" => c.listing = <<>>
                     /\ \A i, j \in DOMAIN c.listing : i # j => c.listing[i] # c.listing[j] }
    /\ p_units = <<>>
    /\ p_main = [pc |-> "called", collected |-> {}, requirements |-> <<>>,
                 success |-> TRUE, flag |-> FALSE]
    /\ cli = [pc |-> "idle"]

\* a step of a parallel stage
PoolStep(units, main) ==
    /\ p_units' = units
    /\ p_main' = main
    /\ UNCHANGED << p_call, cli >>
    /\ UNCHANGED << r_records, r_open, r_close, r_pc, r_result >>
    /\ UNCHANGED << s_ops, s_dir, s_counter, s_file, s_prev, s_input, s_seen >>
    /\ UNCHANGED << ideaVars, validatorVars, transportVars, depVars, cleanVars >>

\* analyze_all up to the last executor.submit (requirement_analyzer.py:141-155);
\* generate up to the last executor.submit (code_generator.py:161-202), which
\* returns False at once when there are no ideas
Pool_Submit ==
    /\ p_main.pc = "called"
    /\ LET unit(idea, dir, name) ==
               [idea |-> idea, path |-> <<dir, name>>, state |-> "queued", result |-> "none"]
           matches == SelectSeq(p_call.listing,
                                LAMBDA f : find_matching_idea(p_call.ideas, f) # <<"None">>)
       IN  IF p_call.stage = "requirements"
           THEN PoolStep([i \in DOMAIN p_call.ideas |->
                            unit(p_call.ideas[i], "requirements",
                                 requirements_filename(p_call.ideas[i].name))],
                         [p_main EXCEPT !.pc = "waiting"])
           ELSE IF p_call.ideas = <<>>
           THEN PoolStep(<<>>, [p_main EXCEPT !.pc = "returned", !.flag = FALSE])
           ELSE PoolStep([i \in DOMAIN matches |->
                            LET idea == find_matching_idea(p_call.ideas, matches[i])[2]
                            IN  unit(idea, "code", normalize_string(idea.name))],
                         [p_main EXCEPT !.pc = "waiting"])

\* a free thread of the executor takes the unit that waits longest
Worker_Start ==
    \E i \in DOMAIN p_units :
        /\ p_units[i].state = "queued"
        /\ \A j \in 1..(i - 1) : p_units[j].state # "queued"
        /\ Cardinality({ j \in DOMAIN p_units : p_units[j].state \in {"running", "writing"} })
             < p_call.max_workers
        /\ PoolStep([p_units EXCEPT ![i].state = "running"], p_main)

\* The unit up to its open(..., 'w').
\* _process_idea_parallel (requirement_analyzer.py:96-111) around analyze_idea
\* (lines 54-89): a record without "Product Idea" raises KeyError in _format_prompt,
\* and the handler raises it again in its log line, so the future raises; an error of
\* the request is caught and "" is returned; every reply, the empty one too, goes to the file.
\* _generate_code_for_idea (code_generator.py:90-121): an error and an empty reply
\* return False.
Worker_Request ==
    \E i \in DOMAIN p_units :
        /\ p_units[i].state = "running"
        /\ IF p_call.stage = "requirements"
           THEN IF "Product Idea" \notin p_units[i].idea.keys
                THEN PoolStep([p_units EXCEPT ![i].state = "done", ![i].result = "raised"], p_main)
                ELSE \E reply \in {"text", "empty", "error"} :
                       IF reply = "error"
                       THEN PoolStep([p_units EXCEPT ![i].state = "done", ![i].result = "empty"],
                                     p_main)
                       ELSE PoolStep([p_units EXCEPT ![i].state = "writing", ![i].result = reply],
                                     p_main)
           ELSE \E reply \in {"text", "empty", "error"} :
                  IF reply = "text"
                  THEN PoolStep([p_units EXCEPT ![i].state = "writing", ![i].result = "True"],
                                p_main)
                  ELSE PoolStep([p_units EXCEPT ![i].state = "done", ![i].result = "False"],
                                p_main)

\* f.write and the end of the with open(...) block (requirement_analyzer.py:91-94,
\* code_generator.py:123-127); the unit returns
Worker_Write ==
    \E i \in DOMAIN p_units :
        /\ p_units[i].state = "writing"
        /\ PoolStep([p_units EXCEPT ![i].state = "done"], p_main)

\* The coordinating thread takes the result of a future: any finished one in
\* as_completed (requirement_analyzer.py:157-166), the next in submission order in
\* generate (code_generator.py:205-212).  A future that raised makes the log line of
\* requirement_analyzer.py:166 raise KeyError, which leaves the loop.
Pool_Result ==
    /\ p_main.pc = "waiting"
    /\ \E i \in DOMAIN p_units \ p_main.collected :
         /\ p_units[i].state = "done"
         /\ p_call.stage = "code" => \A j \in 1..(i - 1) : j \in p_main.collected
         /\ PoolStep(p_units,
                     IF p_units[i].result = "raised"
                     THEN [p_main EXCEPT !.pc = "unwinding", !.collected = @ \cup {i}]
                     ELSE [p_main EXCEPT
                             !.collected = @ \cup {i},
                             !.requirements = IF p_units[i].result = "text"
                                              THEN Append(@, i) ELSE @,
                             !.success = @ /\ p_units[i].result # "False"])

\* The with block of the executor ends, which waits for every unit, and the stage
\* returns: analyze_all the list of the non-empty results, which its caller takes for
\* a failure when it is empty (cli.py:247); generate its success flag
\* (code_generator.py:214).  An exception leaves analyze_all after the wait.
Pool_Return ==
    /\ \A i \in DOMAIN p_units : p_units[i].state = "done"
    /\ \/ /\ p_main.pc = "waiting"
          /\ p_main.collected = DOMAIN p_units
          /\ PoolStep(p_units,
                      [p_main EXCEPT !.pc = "returned",
                                     !.flag = IF p_call.stage = "requirements"
                                              THEN p_main.requirements # <<>>
                                              ELSE p_main.success])
       \/ /\ p_main.pc = "unwinding"
          /\ PoolStep(p_units, [p_main EXCEPT !.pc = "raised", !.flag = FALSE])

SpecPool ==
    PoolInit /\ [][Pool_Submit \/ Worker_Start \/ Worker_Request \/ Worker_Write
                     \/ Pool_Result \/ Pool_Return]_vars

(***************************************************************************)
(* The command line entry point (cli.py:183-279): the API key check, the   *)
(* start step, the working directory, then one block per stage, each       *)
(* guarded by start_step <= ProcessStep.X and each leaving through         *)
(* sys.exit(1) on a falsy result; the handler around them turns every      *)
(* exception into sys.exit(1).                                             *)
(***************************************************************************)
\* ProcessStep (cli.py:22-27)
ProcessStep == [ideas |-> 1, requirements |-> 2, code |-> 3, dependencies |-> 4]

\* ProcessStep.from_string (cli.py:29-44): the digit or the name, in any
\* case; everything else raises ValueError
from_string(step_str) ==
    LET lower == IF step_str = "CODE" THEN "code" ELSE step_str
    IN  CASE lower \in {"1", "ideas"}        -> <<"step", ProcessStep.ideas>>
          [] lower \in {"2", "requirements"} -> <<"step", ProcessStep.requirements>>
          [] lower \in {"3", "code"}         -> <<"step", ProcessStep.code>>
          [] lower \in {"4", "dependencies"} -> <<"step", ProcessStep.dependencies>>
          [] OTHER                           -> <<"ValueError">>

\* What the call of one stage block can give main, and what it leaves in the
\* working directory.  The calls of the ideas and code blocks pass a keyword
\* prompt_file that IdeaGenerator.generate (idea_generator.py:128-129) and
\* CodeGenerator.generate (code_generator.py:133) do not have, and the
\* dependencies block passes two arguments to a constructor that takes one
\* (dependency_collector.py:19): each raises TypeError before the stage does
\* anything.  analyze_all (requirement_analyzer.py:113-173) raises when
\* ideas.json cannot be loaded; otherwise it creates the requirements
\* directory and returns the texts it collected, an empty list, or raises.
StageCall(stage, files) ==
    IF stage = ProcessStep.requirements
    THEN IF "ideas.json" \in files
         THEN { [result |-> r, files |-> files \cup {"requirements"}] :
                  r \in {"truthy", "falsy", "raised"} }
         ELSE { [result |-> "raised", files |-> files] }
    ELSE { [result |-> "raised", files |-> files] }

\* the command line before main runs: --api-key, --start-step, and the
\* working directory, which a restart finds with the files of an earlier run
CliInit ==
    /\ IdeasIdle /\ ValidatorIdle /\ TransportIdle /\ DepsIdle /\ CleanIdle
    /\ r_records = <<>> /\ r_open = <<>> /\ r_close = <<>>
    /\ r_pc = "idle" /\ r_result = Err("none", 0, "none")
    /\ s_ops = <<"idle">> /\ s_dir = <<>> /\ s_counter = <<>>
    /\ s_file = [exists |-> FALSE, frameworks |-> <<>>, models |-> <<>>]
    /\ s_prev = s_file
    /\ s_input = [frameworks |-> <<>>, models |-> <<>>]
    /\ s_seen = s_input
    /\ p_call = [stage |-> "idle"] /\ p_units = <<>> /\ p_main = [pc |-> "idle"]
    /\ cli \in [pc : {"main"},
                api_key : BOOLEAN,
                step_str : {"1", "2", "3", "4", "ideas", "requirements", "CODE",
                            "dependencies", "5", "all"},
                start_step : {0},
                block : {0},
                started : {<<>>},
                results : {<<>>},
                exit_code : {-1},         \* the process has not exited
                files : SUBSET {"ideas.json", "requirements", "code", "dependencies.json"}]

\* a step of main
CliStep(c) ==
    /\ cli' = c
    /\ UNCHANGED << r_records, r_open, r_close, r_pc, r_result >>
    /\ UNCHANGED << s_ops, s_dir, s_counter, s_file, s_prev, s_input, s_seen >>
    /\ UNCHANGED << p_call, p_units, p_main >>
    /\ UNCHANGED << ideaVars, validatorVars, transportVars, depVars, cleanVars >>

\* main up to the first stage block (cli.py:199-225)
Cli_Setup ==
    /\ cli.pc = "main"
    /\ IF ~cli.api_key \/ from_string(cli.step_str) = <<"ValueError">>
       THEN CliStep([cli EXCEPT !.pc = "exited", !.exit_code = 1])
       ELSE CliStep([cli EXCEPT !.pc = "stages", !.block = ProcessStep.ideas,
                                !.start_step = from_string(cli.step_str)[2]])

\* a stage block that goes on to the next block after a failure
Cli_Stage_running_on ==
    /\ cli.pc = "stages"
    /\ LET k == cli.block
           after(c) == IF k = ProcessStep.dependencies
                       THEN [c EXCEPT !.pc = "exited", !.exit_code = 1]
                       ELSE [c EXCEPT !.block = k + 1]
       IN  IF cli.start_step <= k
           THEN \E o \in StageCall(k, cli.files) :
                  CliStep(after([cli EXCEPT !.started = Append(@, k),
                                            !.results = Append(@, o.result),
                                            !.files = o.files]))
           ELSE CliStep(after(cli))

\* one stage block (cli.py:227-269) and, after the last, the return of main
Cli_Stage ==
    /\ cli.pc = "stages"
    /\ LET k == cli.block
           after(c) == IF k = ProcessStep.dependencies
                       THEN [c EXCEPT !.pc = "exited", !.exit_code = 0]
                       ELSE [c EXCEPT !.block = k + 1]
       IN  IF cli.start_step <= k
           THEN \E o \in StageCall(k, cli.files) :
                  LET c == [cli EXCEPT !.started = Append(@, k),
                                       !.results = Append(@, o.result),
                                       !.files = o.files]
                  IN  IF o.result = "truthy"
                      THEN CliStep(after(c))
                      ELSE CliStep([c EXCEPT !.pc = "exited", !.exit_code = 1])
           ELSE CliStep(after(cli))

SpecCli == CliInit /\ [][Cli_Setup \/ Cli_Stage]_vars

(***************************************************************************)
(* Properties.                                                             *)
(***************************************************************************)
Ended == pc \in {"done", "failed"}
BatchLoop == path \in {"pp", "ig"}

\* a record of the schema, stated without the validators
StringFields == {"Product Idea", "Problem it solves", "Company profile", "Engineering profile"}
ListFields == {"Software Techstack", "Target hardware expectations"}
Conforms(schema, item) ==
    /\ IsDict(item)
    /\ IF schema = "rich"
       THEN /\ \A f \in StringFields : HasKey(item, f) /\ GetKey(item, f)[1] = "str"
            /\ \A f \in ListFields :
                 /\ HasKey(item, f)
                 /\ GetKey(item, f)[1] = "list"
                 /\ \A i \in 1..Len(GetKey(item, f)[2]) : GetKey(item, f)[2][i][1] = "str"
       ELSE \A f \in {"Idea", "Details"} : HasKey(item, f) /\ GetKey(item, f)[1] = "str"

\* C1: with max_format_retries = k, when every structured reply is invalid
\* (unparseable or violating the schema) the call never returns normally, never
\* sends more than k requests, and once it has ended it has raised a format
\* error after exactly k requests (the error prompt being readable).
C1_AllInvalidFailsAfterExactlyK ==
    (all_invalid /\ nreq >= 1 /\ error # "prompt_io") =>
        /\ pc # "done"
        /\ nreq <= max_format_retries
        /\ (pc = "failed" =>
              /\ error \in {"format_exhausted", "validation"}
              /\ nreq = max_format_retries)

\* C2: a reply that violates the record schema while retries are left gets a
\* correction turn instead of ending the call, and when a valid reply follows
\* it the valid batch is returned and the conversation holds exactly one
\* correction turn.
C2_SchemaViolationThenValid ==
    /\ (last_kind = "schema" /\ pc = "failed" /\ error # "prompt_io") =>
           attempt = max_format_retries - 1
    /\ (nreq = 2 /\ prev_kind = "schema" /\ last_kind = "valid") =>
           /\ pc \in {"done", "request"}
           /\ validated_ideas = BatchOf(path, last_outcome)
           /\ Cardinality(CorrectionTurns(messages)) = 1

\* C3: every idea-generation call eventually reaches DONE or FAILED.
C3_EventuallyEnds == <>Ended

\* C4: an authentication error or an exhausted transport met by a structured
\* request ends the call with that very error: it is not taken for a format
\* failure and no request follows it.
C4_TransportErrorsPropagate ==
    /\ (last_kind = "auth" => pc = "failed" /\ error = "auth")
    /\ (last_kind = "exhausted" => pc = "failed" /\ error = "transport_exhausted")

\* C5: every record of the accumulator is a mapping with all required fields
\* of the active schema, each of the expected type, and the records counted
\* toward the target are exactly the accumulated ones.
C5_AccumulatorHoldsValidRecords ==
    BatchLoop =>
        /\ \A i \in 1..Len(all_ideas) : Conforms(Schema(path), all_ideas[i])
        /\ remaining_ideas = num_ideas - Len(all_ideas)

\* an accumulator that survived a later schema-violating reply
C5_Witness ==
    /\ path = "pp"
    /\ Len(all_ideas) >= 1
    /\ last_kind = "schema"

C7_AsksMinOfBatchAndRemaining ==
    (BatchLoop /\ pc = "request") =>
        AskedIn(messages) = Min(BatchSize(path), remaining_ideas)

\* C8: with N = 30 and B = 25, every batch holding exactly the count asked
\* for, the loop makes exactly 2 structured requests and returns exactly 30
\* records: the 25 of the first batch, then the 5 of the second, in order.
C8_ThirtyInTwoBatches ==
    (BatchLoop /\ BatchSize(path) = 25 /\ num_ideas = 30 /\ all_exact) =>
        /\ nreq <= 2
        /\ (pc = "done" =>
              /\ nreq = 2
              /\ Len(all_ideas) = 30
              /\ all_ideas = Records(Schema(path), 25) \o Records(Schema(path), 5))
        /\ (nreq = 2 => pc = "done")

C8_Witness ==
    /\ path = "pp"
    /\ num_ideas = 30
    /\ all_exact
    /\ nreq = 2
    /\ pc = "done"

\* C9: with N = 1, every structured reply holding exactly the count asked for,
\* the loop makes exactly one structured request and returns exactly 1 record.
C9_OneRecordInOneRoundTrip ==
    (BatchLoop /\ num_ideas = 1 /\ all_exact /\ pc = "done") =>
        /\ nreq = 1
        /\ Len(all_ideas) = 1

\* C10: a structured request that meets a valid reply appends the validated
\* batch of that reply, in order, to the accumulator and lowers remaining by
\* the size of the batch, whatever its size; no other step changes the
\* accumulator or remaining.
C10_AccumulatorGrowsByBatch ==
    [][ IF BatchLoop /\ pc = "request" /\ Classify(path, last_outcome') = "valid"
        THEN /\ all_ideas' = all_ideas \o BatchOf(path, last_outcome')
             /\ remaining_ideas' = remaining_ideas - Len(BatchOf(path, last_outcome'))
        ELSE /\ all_ideas' = all_ideas
             /\ remaining_ideas' = remaining_ideas ]_vars

\* two batches, each shorter than asked, that hold the same record
C10_Witness ==
    /\ BatchLoop
    /\ num_ideas = 3
    /\ pc = "request"
    /\ Len(all_ideas) = 2
    /\ all_ideas[1] = all_ideas[2]
    /\ remaining_ideas = 1

\* C11: a reply that parses to a well-formed but empty list of records is a
\* validation failure: no validator accepts it as a batch of zero records.
C11_EmptyListIsFailure ==
    (v_which # "none" /\ v_data = JList(<<>>)) => ~v_result.ok

\* C17: a parsed value that is a single record object (a mapping that conforms
\* to the schema) is wrapped in a one-element list and validated: the result
\* is the one-record batch holding it.
C17_SingleMappingIsWrapped ==
    (v_which # "none" /\ IsDict(v_data) /\ Conforms(Schema(v_which), v_data)) =>
        /\ v_result.ok
        /\ v_result.items = <<v_data>>

\* C18: a parsed value that is a mapping with a field holding a list of
\* records (an "ideas" wrapper) is unwrapped: the nested list is validated and
\* its records are returned.
C18_WrapperIsUnwrapped ==
    \A l \in SeqsUpTo(Items, 1) :
        (/\ v_which # "none"
         /\ l # <<>>
         /\ v_data = Wrapped(l)
         /\ \A i \in 1..Len(l) : Conforms(Schema(v_which), l[i])) =>
            /\ v_result.ok
            /\ v_result.items = l

\* C19: with the minimal idea schema, [{"Idea": "X", "Details": "Y"}]
\* validates, and [{"Idea": "X"}] fails with a missing-field error that gives
\* the index of the offending item and names the missing field Details.
C19_MinimalSchemaScenario ==
    /\ (v_which = "ig" /\ v_data = JList(<<MinRecord(1)>>)) =>
           /\ v_result.ok
           /\ v_result.items = <<MinRecord(1)>>
    /\ (v_which = "ig" /\ v_data = JList(<<MissingFieldRecord("min")>>)) =>
           /\ ~v_result.ok
           /\ v_result.err \in {"missing_field", "missing_required_fields"}
           /\ v_result.index = 1
           /\ v_result.field = "Details"

\* C14: in the transport client a 401 response, at any attempt, is not
\* retried: the call ends at once with the bad-credentials error, whatever
\* retry budget is left, and no further post is made in that call.
C14_AuthNotRetried ==
    t_outcome = <<"401">> =>
        /\ t_pc = "raised"
        /\ t_result = BadCredentials
        /\ Len(PostsOfCall) = t_attempt + 1

\* a 401 met by the second post of a call with a budget of three
C14_Witness ==
    /\ t_outcome = <<"401">>
    /\ t_max_retries = DefaultMaxRetries
    /\ t_attempt = 1
    /\ t_last_error # None

C16_TimeoutLinearInAttempt ==
    \A i \in 1..Len(t_log) :
        /\ t_log[i][2] = 1 + Cardinality({j \in 1..(i - 1) : t_log[j][1] = t_log[i][1]})
        /\ t_log[i][2] <= t_max_retries
        /\ t_log[i][3] = t_timeout * t_log[i][2]

\* a second call right after a call of three posts
C16_Witness ==
    /\ Len(t_log) >= 4
    /\ t_timeout = DefaultTimeout
    /\ t_log[3] = <<1, 3, 3 * DefaultTimeout>>
    /\ t_log[4] = <<2, 1, DefaultTimeout>>

C13_DependenciesRetryExactlyMax ==
    (d_all_invalid /\ d_nreq >= 1 /\ d_caught # "prompt_io") =>
        /\ d_nreq <= DependenciesMaxRetries
        /\ (d_pc = "done" =>
              /\ d_result = EmptyFrameworks
              /\ d_nreq = DependenciesMaxRetries)

\* C20: for a reply made of narrative text and one bracketed JSON span, the
\* normalizer returns exactly that span, from its opening bracket to its
\* matching closing bracket, whatever bracket characters the narrative holds.
C20_ExtractsExactlyTheSpan ==
    c_pc = "done" => (c_result.ok /\ c_result.text = c_span)

(***************************************************************************)
(* C21: normalizing, parsing and validating a reply that holds a JSON      *)
(* array of schema-valid records, bare or inside a fence with both, only   *)
(* the opening or only the closing marker, returns exactly those records,  *)
(* unchanged and in the same order.                                        *)
(***************************************************************************)
C21_RoundTripReturnsRecords ==
    r_pc = "done" => r_result = Ok(r_records)

(***************************************************************************)
(* C22: framework names are lowercased before they are counted: the        *)
(* counter of a scan has lowercase keys only, and the count of a key is    *)
(* the number of files that hold the name in any letter case.              *)
(***************************************************************************)
C22_FrameworkNamesLowercased ==
    (s_ops # <<>> /\ s_ops[Len(s_ops)] = "collect_all") =>
        \A k \in DOMAIN s_counter :
            /\ Lower(k) = k
            /\ s_counter[k] =
                 Cardinality({ i \in 1..Len(s_dir) :
                                 \E n \in analyze_file(s_dir[i]).frameworks : Lower(n) = k })

(***************************************************************************)
(* C23: after a directory scan the count of every framework name equals    *)
(* the number of scanned files in which the name was found, however often  *)
(* a file holds it, and a name found in no scanned file is absent.         *)
(***************************************************************************)
C23_CountIsNumberOfFiles ==
    (s_ops # <<>> /\ s_ops[Len(s_ops)] = "collect_all") =>
        LET files(n) ==
                { i \in 1..Len(s_dir) :
                    /\ s_dir[i].ext \in {"py", "js", "ts"}
                    /\ s_dir[i].readable
                    /\ \E j \in 1..Len(s_dir[i].imports) : s_dir[i].imports[j] = n }
        IN  /\ \A n \in DOMAIN s_counter : s_counter[n] = Cardinality(files(n))
            /\ \A k \in 1..Len(NameOrder) :
                 files(NameOrder[k]) = {} => NameOrder[k] \notin DOMAIN s_counter

\* two files that each import Flask twice were scanned: Flask counts 2
C23_Witness ==
    /\ s_ops # <<>> /\ s_ops[Len(s_ops)] = "collect_all"
    /\ s_dir = <<FileKinds[1], FileKinds[1]>>
    /\ "Flask" \in DOMAIN s_counter
    /\ s_counter["Flask"] = 2

(***************************************************************************)
(* C24: after any sequence of collect_all runs on one output directory the *)
(* frameworks list of the written dependencies file is sorted by name (a   *)
(* name that is itself an entry is taken by the name it holds).            *)
(***************************************************************************)
C24_WrittenFileSortedByName ==
    (s_ops # <<>> /\ \A i \in 1..Len(s_ops) : s_ops[i] = "collect_all") =>
        LET name(e) == IF IsStr(GetKey(e, "name")) THEN GetKey(e, "name")[2]
                       ELSE GetKey(GetKey(e, "name"), "name")[2]
            rank(n) == CHOOSE k \in 1..Len(NameOrder) : NameOrder[k] = n
        IN  \A i \in 1..(Len(s_file.frameworks) - 1) :
              rank(name(s_file.frameworks[i])) <= rank(name(s_file.frameworks[i + 1]))

(***************************************************************************)
(* C25: after collect_all on an output directory without a dependencies    *)
(* file, the frameworks list has one entry per distinct framework found,   *)
(* whose name is the framework string and whose count is the number of     *)
(* scanned files that hold it.                                             *)
(***************************************************************************)
C25_FirstRunWritesNamesAndCounts ==
    s_ops = <<"collect_all">> =>
        /\ Len(s_file.frameworks) = Cardinality(DOMAIN s_counter)
        /\ \A i \in 1..Len(s_file.frameworks) :
             LET name == GetKey(s_file.frameworks[i], "name")
             IN  /\ IsStr(name)
                 /\ name[2] \in DOMAIN s_counter
                 /\ GetKey(s_file.frameworks[i], "count") = JNum(s_counter[name[2]])

(***************************************************************************)
(* C26: starting from no dependencies file, after update_dependencies      *)
(* calls that were each given lists of name strings, the file holds one    *)
(* entry per distinct name seen, counting how often the name appeared in   *)
(* all the lists; the last call left the entries of the names absent from  *)
(* its input as they were.                                                 *)
(***************************************************************************)
C26_FileCountsEveryName ==
    (/\ s_file.exists
     /\ \A kind \in {"frameworks", "models"} :
          \A i \in 1..Len(s_seen[kind]) : IsStr(s_seen[kind][i])) =>
        \A kind \in {"frameworks", "models"} :
            LET seen == s_seen[kind]
                list == s_file[kind]
                prev == s_prev[kind]
            IN  /\ \A i \in 1..Len(seen) :
                     Cardinality({ j \in 1..Len(list) : GetKey(list[j], "name") = seen[i] }) = 1
                /\ \A j \in 1..Len(list) :
                     /\ \E i \in 1..Len(seen) : seen[i] = GetKey(list[j], "name")
                     /\ GetKey(list[j], "count") =
                          JNum(Cardinality({ i \in 1..Len(seen) : seen[i] = GetKey(list[j], "name") }))
                /\ \A j \in 1..Len(prev) :
                     (\A i \in 1..Len(s_input[kind]) : s_input[kind][i] # GetKey(prev[j], "name"))
                       => (j <= Len(list) /\ list[j] = prev[j])

\* two calls: flask was named three times in all, numpy only in the first call
C26_Witness ==
    /\ s_ops = <<"update_dependencies", "update_dependencies">>
    /\ s_input.frameworks = <<JStr("flask"), JStr("flask")>>
    /\ s_prev.frameworks = <<Entry(JStr("flask"), 1), Entry(JStr("numpy"), 1)>>
    /\ s_file.frameworks = <<Entry(JStr("flask"), 3), Entry(JStr("numpy"), 1)>>

\* C27: in a parallel stage a unit that fails stops no other unit: when the stage
\* ends, every submitted unit has run to completion, and the stage counts as a
\* success exactly when every submitted unit succeeded.
C27_FlagIffEveryUnitSucceeded ==
    (p_main.pc \in {"returned", "raised"} /\ p_units # <<>>) =>
        /\ \A i \in DOMAIN p_units : p_units[i].state = "done"
        /\ p_main.flag <=> \A i \in DOMAIN p_units : p_units[i].result \in {"text", "True"}

\* C28: no two workers are writing the same output file at the same time, whatever
\* the names of the ideas are.  (The claim gives the design for it: workers write
\* no file at all, the coordinating thread does.)
C28_NoConcurrentWritesToOneFile ==
    \A i, j \in DOMAIN p_units :
        (i # j /\ p_units[i].state = "writing" /\ p_units[j].state = "writing")
            => p_units[i].path # p_units[j].path

\* C29: IdeaGenerator.generate writes the ideas file once, after its loop has ended,
\* with the whole accumulator; a call that has not ended, or that failed at any point,
\* has written nothing and has left the file as it was.
C29_FileWrittenOnceAtTheEnd ==
    /\ nwrites <= 1
    /\ pc # "done" => (nwrites = 0 /\ ideas_file \in { <<"absent">>, <<"stale">> })
    /\ (pc = "done" /\ path = "ig") => (nwrites = 1 /\ ideas_file = <<"ideas", all_ideas>>)

\* a call that failed after a batch was accumulated, over a file of an earlier run
C29_Witness ==
    /\ path = "ig" /\ pc = "failed" /\ all_ideas # <<>>
    /\ ideas_file = <<"stale">> /\ nwrites = 0

\* C30: a missing file ends the call at once.  With a prompt template missing,
\* IdeaGenerator.generate fails with FileNotFoundError and no request of any kind was
\* sent.  When a reply to handle_json_response or OpenRouterClient.generate_ideas has
\* failed, a retry is left, and the error-correction prompt cannot be read, the call
\* has failed with that error, so that no request follows.
C30_MissingFileIsFatal ==
    /\ missing_prompt # "none" =>
         /\ nseed = 0 /\ nreq = 0
         /\ pc \in {"seed1", "failed"}
         /\ pc = "failed" => error = "file_not_found"
    /\ (/\ path \in {"pp", "or"}
        /\ ~last_readable
        /\ last_kind = "unparseable" \/ (path = "or" /\ last_kind = "schema")
        /\ attempt < max_format_retries - 1)
         => (pc = "failed" /\ error = "prompt_io")

\* the second reply of a batch failed and the correction prompt could not be read
C30_Witness ==
    /\ path = "pp" /\ pc = "failed" /\ error = "prompt_io"
    /\ ~last_readable /\ last_kind = "unparseable" /\ attempt = 1 /\ nreq = 2

\* C31: a record the idea stage accepts holds every field the later stages read:
\* no unit of a later stage that works on a record with "Idea" fails for a missing
\* field.
C31_AcceptedRecordHasEveryField ==
    \A i \in DOMAIN p_units :
        "Idea" \in p_units[i].idea.keys => p_units[i].result # "raised"

\* C32: in the retry loops of handle_json_response and OpenRouterClient.generate_ideas
\* every failed attempt but the last of a batch appends its own raw reply as an
\* assistant message and then the error-correction prompt as a user message, and
\* nothing else; the last failed attempt, and an attempt that got no reply, append
\* nothing.  (The error-correction prompt is taken to be readable.)
C32_FailedAttemptAppendsItsPair ==
    [][ (pc = "request" /\ path \in {"pp", "or"} /\ last_readable') =>
          LET kind == Classify(path, last_outcome')
          IN  /\ (kind \in {"unparseable", "schema"} /\ attempt < max_format_retries - 1) =>
                    /\ messages' = messages \o << Msg("assistant", Raw(last_outcome'[2])),
                                                  Msg("user", ErrorPrompt) >>
                    /\ attempt' = attempt + 1
              /\ (kind \in {"unparseable", "schema"} /\ attempt = max_format_retries - 1) =>
                    messages' = messages
              /\ kind \in {"auth", "exhausted"} => messages' = messages
      ]_vars

\* C33: the "more items" request that follows a valid batch has, right before its
\* prompt, an assistant message that holds that validated batch, the most recent one.
C33_MoreItemsFollowsLatestBatch ==
    [][ (/\ path \in {"pp", "ig"}
         /\ pc = "request" /\ pc' = "request"
         /\ Classify(path, last_outcome') = "valid") =>
          /\ messages'[Len(messages')][1] = "user"
          /\ messages'[Len(messages')][2][1] = "prompt"
          /\ messages'[Len(messages')][2][2] = "more_items"
          /\ messages'[Len(messages') - 1] =
               Msg("assistant", Dumps(BatchOf(path, last_outcome')))
      ]_vars

C35_SeedingBeforeStructured ==
    path = "ig" =>
        /\ nseed <= 2
        /\ pc = "seed1" => (nseed = 0 /\ nreq = 0)
        /\ pc = "seed2" =>
             /\ nseed = 1 /\ nreq = 0
             /\ messages = << SystemMsg("helpful_assistant"),
                              Msg("assistant", Raw(<<"prose", JStr(1)>>)),
                              Msg("user", <<"expand_prompt">>) >>
        /\ (pc = "request" \/ nreq > 0) => nseed = 2
        /\ (pc = "request" /\ nreq = 0) =>
             /\ Len(messages) = 3
             /\ messages[2] = Msg("assistant", Raw(<<"prose", JStr(2)>>))
             /\ messages[3][1] = "user"
             /\ messages[3][2][1] = "prompt" /\ messages[3][2][2] = "list_prompt"

\* the first structured request is due: both seeding replies are in
C35_Witness ==
    /\ path = "ig" /\ pc = "request" /\ nreq = 0 /\ nseed = 2
    /\ messages[2] = Msg("assistant", Raw(<<"prose", JStr(2)>>))

\* C36: the conversation of a call is append-only: the message list of a request is
\* a prefix of the message list of the next request of the call.
C36_ConversationAppendOnly ==
    [][ (pc \in {"seed1", "seed2", "request"} /\ pc' \in {"seed2", "request"}) =>
          /\ Len(messages) <= Len(messages')
          /\ SubSeq(messages', 1, Len(messages)) = messages
      ]_vars

C38_ReturnsParsedValueOrRaises ==
    [][ (/\ path = "pp" /\ pc = "request"
         /\ \/ pc' = "done"
            \/ pc' = "request" /\ attempt' = 0
            \/ pc' = "failed" /\ error' = "validation")
        => /\ nreq' = Bump(nreq)
           /\ Classify(path, last_outcome') \in {"schema", "valid"} ]_vars

\* C39: a run of collect_all that follows a run of collect_all on the same
\* code directory leaves the dependencies file as the first run left it: the
\* same entries with the same counts, in the frameworks and the models list.
C39_CollectAllIdempotent ==
    [][ (/\ s_ops # <<>> /\ s_ops # <<"idle">>
         /\ s_ops[Len(s_ops)] = "collect_all"
         /\ s_ops' = Append(s_ops, "collect_all")
         /\ s_dir' = s_dir)
        => /\ s_file'.frameworks = s_file.frameworks
           /\ s_file'.models = s_file.models ]_vars

====
